---- MODULE Spec2Model ----
(***************************************************************************)
(* The proactive message subsystem of partner-ai (ConversationInitiator in *)
(* backend/active_partner_system.py and its callers in backend/main.py):   *)
(* the ai_messages_queue table, the user_activity_patterns table, the      *)
(* send-timing policy, the daily sweep, the delivery poll and the manual   *)
(* trigger.                                                                *)
(*                                                                         *)
(* Time is counted in minutes since 00:00 of day 0.  A timestamp column    *)
(* holds such a number, or NoTime for SQL NULL / Python None.              *)
(*                                                                         *)
(* The methods are those of a ConversationInitiator whose db_connection    *)
(* is an open connection to partner_ai.db, as __init__ receives it in      *)
(* active_partner_system.py's own entry point: conn is Open in every       *)
(* specification but SpecServer, which follows what main.py's              *)
(* startup_event leaves in the conn field.                                 *)
(***************************************************************************)
EXTENDS Integers, Sequences, FiniteSets, TLC

(* ------------------------------ bounds --------------------------------- *)

\* Largest number of rows ai_messages_queue holds in a checked run.
MaxQueue == 3
\* Largest number of manual triggers in a checked run.
MaxTriggers == 1
\* Largest number of times one row is marked sent by direct calls of
\* mark_message_sent in a checked run.
MaxMarks == 1

(* --------------------------- time arithmetic --------------------------- *)

MinutesPerDay == 24 * 60
NoTime == 0 - 1
NoTask == 0 - 1

\* DATE(ts) of SQLite / datetime.date(): the day number.
DateOf(t) == t \div MinutesPerDay
\* datetime.time(): minutes since midnight.
TimeOfDay(t) == t % MinutesPerDay
\* datetime.hour
HourOf(t) == TimeOfDay(t) \div 60
\* datetime.weekday(): Monday is 0 and Sunday is 6.  Day 0 is a Saturday.
Sunday == 6
FirstWeekday == Sunday - 1
WeekdayOf(t) == (FirstWeekday + DateOf(t)) % 7
\* datetime.combine(date, time)
Combine(d, tod) == d * MinutesPerDay + tod
\* the difference taken without abs
NoAbs(x) == x

Abs(x) == IF x < 0 THEN 0 - x ELSE x

(* ------------------------------ universe ------------------------------- *)

Users == {"u1", "u2"}
\* The user whose sweeps, polls and pattern requests are followed; the other
\* one shares the tables with this one.
Served == {"u1"}

\* MessagePriority
CRITICAL == 1
HIGH == 2
MEDIUM == 3
LOW == 4

\* The days followed, a Saturday and a Sunday, and the instants of a day at
\* which something is observed or done.
Days == {0, 1}
DayPoints == {3 * 60, 8 * 60, 10 * 60}
TimePoints == {Combine(d, p) : d \in Days, p \in DayPoints}

VARIABLES
    now,        \* datetime.now()
    queue,      \* ai_messages_queue: row i has id i
    patterns,   \* user_activity_patterns, by user_id
    sweepers,   \* overlapping executions of check_and_queue_daily_messages
    pollers,    \* overlapping executions of get_pending_messages_endpoint
    call,       \* the method call under examination and what it returned
    conn        \* the conn field of the ConversationInitiator

vars == <<now, queue, patterns, sweepers, pollers, call, conn>>

\* What the conn field holds: a connection that is open, or None.
Open == "open"
NoConnection == "None"

(* ----------------------- "HH:MM" strings ------------------------------- *)

\* An "HH:MM" string is the pair <<hour, minute>>; None (and the empty
\* string, which Python treats alike in a condition) is <<>>.
NoStr == <<>>
\* f"{hour:02d}:{minute:02d}"
FormatHHMM(m) == <<m \div 60, m % 60>>
\* datetime.strptime(s, "%H:%M").time()
ParseHHMM(s) == s[1] * 60 + s[2]
\* datetime.strptime(s, "%H:%M") returns instead of raising ValueError.
strptime_ok(s) ==
    /\ s # NoStr
    /\ s[1] \in 0 .. 23
    /\ s[2] \in 0 .. 59

(* ----------------------- Activity Pattern Store ------------------------ *)

NoRow ==
    [stored |-> FALSE,
     typical_morning_time |-> NoStr, typical_evening_time |-> NoStr,
     quiet_hours_start |-> NoStr, quiet_hours_end |-> NoStr]

_get_default_patterns ==
    [typical_morning_time |-> FormatHHMM(8 * 60),
     typical_evening_time |-> FormatHHMM(20 * 60),
     quiet_hours_start |-> NoStr, quiet_hours_end |-> NoStr]

\* The dict get_user_patterns returns; a key the dict lacks reads as None.
get_user_patterns(u) ==
    IF ~patterns[u].stored
    THEN _get_default_patterns
    ELSE [typical_morning_time |-> patterns[u].typical_morning_time,
          typical_evening_time |-> patterns[u].typical_evening_time,
          quiet_hours_start |-> patterns[u].quiet_hours_start,
          quiet_hours_end |-> patterns[u].quiet_hours_end]

(* --------------------------- Send-Timing Policy ------------------------ *)

QuietBeforeHour == 6
QuietFromHour == 23
RateLimit == 3
RateWindow == 1 * 60
ScheduleWindow == 900 \div 60

\* recent_count without WHERE user_id = ?
recent_count_any_user(q, u, t) ==
    Cardinality({i \in 1 .. Len(q) :
        /\ q[i].sent
        /\ q[i].sent_at >= t - RateWindow})

\* SELECT COUNT(*) ... WHERE user_id = ? AND sent = 1 AND sent_at >= ?
recent_count(q, u, t) ==
    Cardinality({i \in 1 .. Len(q) :
        /\ q[i].user_id = u
        /\ q[i].sent
        /\ q[i].sent_at >= t - RateWindow})

\* timing_rule that accepts every scheduled_time in the past
timing_rule_late_ok(q, u, scheduled_time, t) ==
    IF recent_count(q, u, t) >= RateLimit
    THEN "rate_limit"
    ELSE IF scheduled_time # NoTime
    THEN IF scheduled_time - t <= ScheduleWindow
         THEN "ok" ELSE "off_schedule"
    ELSE "ok"

\* The rule that follows the quiet-hours rules.
timing_rule(q, u, scheduled_time, t) ==
    IF recent_count(q, u, t) >= RateLimit
    THEN "rate_limit"
    ELSE IF scheduled_time # NoTime
    THEN IF Abs(scheduled_time - t) <= ScheduleWindow
         THEN "ok" ELSE "off_schedule"
    ELSE "ok"

\* policy_rule with the hard quiet window beginning after hour 23
policy_rule_late_night(q, p, u, scheduled_time, t) ==
    IF HourOf(t) < QuietBeforeHour \/ HourOf(t) > QuietFromHour
    THEN "hard_quiet"
    ELSE IF /\ p.quiet_hours_start # NoStr
            /\ p.quiet_hours_end # NoStr
            /\ ParseHHMM(p.quiet_hours_start) <= TimeOfDay(t)
            /\ TimeOfDay(t) <= ParseHHMM(p.quiet_hours_end)
    THEN "user_quiet"
    ELSE timing_rule(q, u, scheduled_time, t)

\* policy_rule with a quiet-hours window that may wrap past midnight
policy_rule_wrapping(q, p, u, scheduled_time, t) ==
    IF HourOf(t) < QuietBeforeHour \/ HourOf(t) >= QuietFromHour
    THEN "hard_quiet"
    ELSE IF /\ p.quiet_hours_start # NoStr
            /\ p.quiet_hours_end # NoStr
            /\ IF ParseHHMM(p.quiet_hours_start) <= ParseHHMM(p.quiet_hours_end)
               THEN /\ ParseHHMM(p.quiet_hours_start) <= TimeOfDay(t)
                    /\ TimeOfDay(t) <= ParseHHMM(p.quiet_hours_end)
               ELSE \/ ParseHHMM(p.quiet_hours_start) <= TimeOfDay(t)
                    \/ TimeOfDay(t) <= ParseHHMM(p.quiet_hours_end)
    THEN "user_quiet"
    ELSE timing_rule(q, u, scheduled_time, t)

\* The rule of should_send_message_now that decides the call made at time t
\* with the patterns p, in the order of its early returns.
policy_rule(q, p, u, scheduled_time, t) ==
    IF HourOf(t) < QuietBeforeHour \/ HourOf(t) >= QuietFromHour
    THEN "hard_quiet"
    ELSE IF /\ p.quiet_hours_start # NoStr
            /\ p.quiet_hours_end # NoStr
            /\ ParseHHMM(p.quiet_hours_start) <= TimeOfDay(t)
            /\ TimeOfDay(t) <= ParseHHMM(p.quiet_hours_end)
    THEN "user_quiet"
    ELSE timing_rule(q, u, scheduled_time, t)

should_send_message_now(q, u, message_type, scheduled_time) ==
    policy_rule(q, get_user_patterns(u), u, scheduled_time, now) = "ok"

(* ------------------------------ Message Queue -------------------------- *)

\* queue_message: INSERT INTO ai_messages_queue.  sent and acknowledged take
\* the column defaults.  origin records which caller made the row and marks
\* counts the UPDATEs that set sent; neither is a column of the table.
queue_message(q, u, message_type, priority, content, scheduled_time, metadata, origin) ==
    Append(q,
        [user_id |-> u,
         message_type |-> message_type,
         priority |-> priority,
         message_content |-> content,
         scheduled_time |-> IF scheduled_time = NoTime THEN now ELSE scheduled_time,
         sent |-> FALSE, sent_at |-> NoTime,
         acknowledged |-> FALSE, acknowledged_at |-> NoTime,
         metadata |-> metadata,
         origin |-> origin, marks |-> 0])

\* pending_ids without AND sent = 0
pending_ids_sent_too(q, u, t) ==
    {i \in 1 .. Len(q) :
        /\ q[i].user_id = u
        /\ q[i].scheduled_time <= t}

\* WHERE user_id = ? AND sent = 0 AND scheduled_time <= ?
pending_ids(q, u, t) ==
    {i \in 1 .. Len(q) :
        /\ q[i].user_id = u
        /\ ~q[i].sent
        /\ q[i].scheduled_time <= t}

\* ORDER BY priority ASC, scheduled_time ASC
order_by(q, i, j) ==
    \/ q[i].priority < q[j].priority
    \/ /\ q[i].priority = q[j].priority
       /\ q[i].scheduled_time <= q[j].scheduled_time

pending_row(q, i) ==
    [id |-> i,
     message_type |-> q[i].message_type,
     priority |-> q[i].priority,
     content |-> q[i].message_content,
     scheduled_time |-> q[i].scheduled_time,
     metadata |-> q[i].metadata]

\* get_pending_messages: every list the query may return.  SQL leaves the
\* order of rows with equal sort keys open.
get_pending_messages(q, u, t) ==
    LET ids == pending_ids(q, u, t)
        n == Cardinality(ids)
        orders == {f \in [1 .. n -> ids] :
                     /\ \A a, b \in 1 .. n : a # b => f[a] # f[b]
                     /\ \A a, b \in 1 .. n : a < b => order_by(q, f[a], f[b])}
    IN {[k \in 1 .. n |-> pending_row(q, f[k])] : f \in orders}

\* mark_message_sent that also moves the row's scheduled_time to the time of
\* the UPDATE
mark_message_sent_rescheduling(q, id) ==
    IF id \in 1 .. Len(q)
    THEN [q EXCEPT ![id].sent = TRUE, ![id].sent_at = now,
                   ![id].scheduled_time = now,
                   ![id].marks = @ + 1]
    ELSE q

\* mark_message_sent with SET sent = 1 alone
mark_message_sent_flag_only(q, id) ==
    IF id \in 1 .. Len(q)
    THEN [q EXCEPT ![id].sent = TRUE, ![id].marks = @ + 1]
    ELSE q

\* mark_message_sent: UPDATE ... SET sent = 1, sent_at = ? WHERE id = ?
mark_message_sent(q, id) ==
    IF id \in 1 .. Len(q)
    THEN [q EXCEPT ![id].sent = TRUE, ![id].sent_at = now,
                   ![id].marks = @ + 1]
    ELSE q

\* mark_message_acknowledged with WHERE id <= ? in place of WHERE id = ?
mark_message_acknowledged_upto(q, id) ==
    [i \in 1 .. Len(q) |->
        IF i <= id
        THEN [q[i] EXCEPT !.acknowledged = TRUE, !.acknowledged_at = now]
        ELSE q[i]]

\* mark_message_acknowledged: UPDATE ... SET acknowledged = 1, ...
mark_message_acknowledged(q, id) ==
    IF id \in 1 .. Len(q)
    THEN [q EXCEPT ![id].acknowledged = TRUE, ![id].acknowledged_at = now]
    ELSE q

\* c.rowcount > 0 of the two UPDATEs
update_found(q, id) == id \in 1 .. Len(q)


(* ----------------------- learning the patterns ------------------------- *)

SumSet(f, S) ==
    LET RECURSIVE Sum(_)
        Sum(T) == IF T = {} THEN 0
                  ELSE LET x == CHOOSE y \in T : TRUE
                       IN f[x] + Sum(T \ {x})
    IN Sum(S)

\* _calculate_average_time that rounds the mean up
_calculate_average_time_ceil(ts) ==
    LET total_minutes == SumSet([t \in ts |-> HourOf(t) * 60 + (TimeOfDay(t) % 60)], ts)
        avg_minutes == (total_minutes + Cardinality(ts) - 1) \div Cardinality(ts)
    IN FormatHHMM(avg_minutes)

\* _calculate_average_time over the timestamps ts (a non-empty set)
_calculate_average_time(ts) ==
    LET total_minutes == SumSet([t \in ts |-> HourOf(t) * 60 + (TimeOfDay(t) % 60)], ts)
        avg_minutes == total_minutes \div Cardinality(ts)
    IN FormatHHMM(avg_minutes)

LearnWindowDays == 30

\* The timestamps learn_user_patterns selects, and what it computes of them.
\* conv is the user's timestamps in the conversations table
learn_timestamps(conv) ==
    {t \in conv : t >= now - LearnWindowDays * MinutesPerDay}

learned_patterns(ts) ==
    LET morning_times == {t \in ts : 6 <= HourOf(t) /\ HourOf(t) <= 11}
        evening_times == {t \in ts : 18 <= HourOf(t) /\ HourOf(t) <= 23}
    IN [typical_morning_time |->
            IF morning_times # {} THEN _calculate_average_time(morning_times)
            ELSE FormatHHMM(8 * 60),
        typical_evening_time |->
            IF evening_times # {} THEN _calculate_average_time(evening_times)
            ELSE FormatHHMM(20 * 60)]

\* The dict learn_user_patterns returns.
learn_user_patterns_result(conv) ==
    LET ts == learn_timestamps(conv)
    IN IF ts = {} THEN _get_default_patterns
       ELSE [typical_morning_time |-> learned_patterns(ts).typical_morning_time,
             typical_evening_time |-> learned_patterns(ts).typical_evening_time,
             quiet_hours_start |-> NoStr, quiet_hours_end |-> NoStr]

\* The row of user_activity_patterns after learn_user_patterns: INSERT OR
\* REPLACE names four columns, the others of the new row are NULL.  With no
\* timestamp the method returns before the INSERT.
learn_user_patterns(u, conv) ==
    LET ts == learn_timestamps(conv)
        p == learned_patterns(ts)
    IN IF ts = {} THEN patterns[u]
       ELSE [stored |-> TRUE,
             typical_morning_time |-> p.typical_morning_time,
             typical_evening_time |-> p.typical_evening_time,
             quiet_hours_start |-> NoStr, quiet_hours_end |-> NoStr]

\* update_user_patterns_endpoint: INSERT OR REPLACE of the request's values;
\* d is the request dict, a missing key of it is NoStr.
update_user_patterns(d) ==
    [stored |-> TRUE,
     typical_morning_time |->
        IF d.typical_morning_time = NoStr THEN FormatHHMM(8 * 60)
        ELSE d.typical_morning_time,
     typical_evening_time |->
        IF d.typical_evening_time = NoStr THEN FormatHHMM(20 * 60)
        ELSE d.typical_evening_time,
     quiet_hours_start |-> d.quiet_hours_start,
     quiet_hours_end |-> d.quiet_hours_end]

(* ------------------------ Message Template Generators ------------------ *)

Body(text, arg) == [text |-> text, arg |-> arg]

\* The text of a message is told apart by its template and by the id the
\* template is filled with; the greeting random.choice draws and the counts
\* of schedules and goals are part of the text and are not told apart.
generate_morning_checkin(u) ==
    [type |-> "morning_checkin", priority |-> MEDIUM,
     content |-> Body("good_morning", 0), metadata |-> NoTask]

\* today_entry: whether journal_sys.get_journal_entry(user_id) finds one
generate_evening_reflection(u, today_entry) ==
    IF today_entry
    THEN [type |-> "evening_simple", priority |-> LOW,
          content |-> Body("rest_well", 0), metadata |-> NoTask]
    ELSE [type |-> "evening_reflection", priority |-> HIGH,
          content |-> Body("reflect", 0), metadata |-> NoTask]

generate_weekly_review_prompt(u) ==
    [type |-> "weekly_review", priority |-> HIGH,
     content |-> Body("review", 0), metadata |-> NoTask]

EncouragementContexts == {"struggling", "tired", "procrastinating", "celebrating"}

generate_encouragement(u, context) ==
    [type |-> "encouragement", priority |-> MEDIUM,
     content |-> Body(IF context \in EncouragementContexts THEN context
                      ELSE "generic", 0),
     metadata |-> NoTask]

\* the task dict has a due_date here; days_left is counted from t
generate_task_reminder(u, task, t) ==
    LET days_left == task.due - DateOf(t)
    IN [type |-> "task_reminder", priority |-> HIGH,
        content |-> Body(IF days_left = 0 THEN "due_today"
                         ELSE IF days_left = 1 THEN "due_tomorrow"
                         ELSE "days_left", task.id),
        metadata |-> task.id]


(* ------------------------- Daily Scheduling Sweep ---------------------- *)

\* queued_today looking at the unsent rows only
queued_today_unsent(q, u, types, t) ==
    \E i \in 1 .. Len(q) :
        /\ q[i].user_id = u
        /\ q[i].message_type \in types
        /\ ~q[i].sent
        /\ DateOf(q[i].scheduled_time) = DateOf(t)

\* SELECT id FROM ai_messages_queue WHERE user_id = ? AND message_type IN
\* types AND DATE(scheduled_time) = DATE(?)
queued_today(q, u, types, t) ==
    \E i \in 1 .. Len(q) :
        /\ q[i].user_id = u
        /\ q[i].message_type \in types
        /\ DateOf(q[i].scheduled_time) = DateOf(t)

\* The decimal digits of n begin those of m: what
\* metadata LIKE '%"task_id": n%' asks of the text {"task_id": m}.
RECURSIVE DecimalPrefix(_, _)
DecimalPrefix(n, m) == n = m \/ (m >= 10 /\ DecimalPrefix(n, m \div 10))

reminder_queued_today(q, u, task_id, t) ==
    \E i \in 1 .. Len(q) :
        /\ q[i].user_id = u
        /\ q[i].message_type = "task_reminder"
        /\ q[i].metadata # NoTask
        /\ DecimalPrefix(task_id, q[i].metadata)
        /\ DateOf(q[i].scheduled_time) = DateOf(t)

\* The sweep's call of queue_message with a generated message.
queue_generated(q, u, msg, scheduled_time) ==
    queue_message(q, u, msg.type, msg.priority, msg.content, scheduled_time,
                  msg.metadata, "sweep")

MorningKinds == {"morning_checkin"}
EveningKinds == {"evening_reflection", "evening_simple"}
WeeklyKinds == {"weekly_review"}

\* The sweep's four categories; t and pat are the sweep's now and patterns.
morning_dt(t, pat) == Combine(DateOf(t), ParseHHMM(pat.typical_morning_time))
evening_dt(t, pat) == Combine(DateOf(t), ParseHHMM(pat.typical_evening_time))
review_time(t) == Combine(DateOf(t), 18 * 60)
reminder_time(t) == Combine(DateOf(t), 10 * 60)

\* sweep_morning without its existence check
sweep_morning_unchecked(q, u, t, pat) ==
    queue_generated(q, u, generate_morning_checkin(u), morning_dt(t, pat))

\* insert_morning that looks at the table once more before it inserts
insert_morning_if_absent(q, u, t, pat) ==
    IF queued_today(q, u, MorningKinds, t) THEN q
    ELSE queue_generated(q, u, generate_morning_checkin(u), morning_dt(t, pat))

\* What each category does once its SELECT has found no row.
insert_morning(q, u, t, pat) ==
    queue_generated(q, u, generate_morning_checkin(u), morning_dt(t, pat))

insert_evening(q, u, t, pat, today_entry) ==
    queue_generated(q, u, generate_evening_reflection(u, today_entry), evening_dt(t, pat))

insert_weekly(q, u, t) ==
    queue_generated(q, u, generate_weekly_review_prompt(u), review_time(t))

insert_reminder(q, u, t, task) ==
    queue_generated(q, u, generate_task_reminder(u, task, t), reminder_time(t))

sweep_morning(q, u, t, pat) ==
    IF queued_today(q, u, MorningKinds, t) THEN q
    ELSE insert_morning(q, u, t, pat)

sweep_evening(q, u, t, pat, today_entry) ==
    IF queued_today(q, u, EveningKinds, t) THEN q
    ELSE insert_evening(q, u, t, pat, today_entry)

\* sweep_weekly without the test of the weekday
sweep_weekly_any_day(q, u, t) ==
    IF queued_today(q, u, WeeklyKinds, t) THEN q
    ELSE insert_weekly(q, u, t)

sweep_weekly(q, u, t) ==
    IF WeekdayOf(t) # Sunday THEN q
    ELSE IF queued_today(q, u, WeeklyKinds, t) THEN q
    ELSE insert_weekly(q, u, t)

\* if task.get('due_date') ... if 0 <= days_left <= 1
reminder_due(task, t) ==
    /\ task.due # NoTime
    /\ 0 <= task.due - DateOf(t)
    /\ task.due - DateOf(t) <= 1

sweep_task(q, u, t, task) ==
    IF ~reminder_due(task, t) THEN q
    ELSE IF reminder_queued_today(q, u, task.id, t) THEN q
    ELSE insert_reminder(q, u, t, task)

RECURSIVE sweep_tasks(_, _, _, _, _)
sweep_tasks(q, u, t, ts, k) ==
    IF k > Len(ts) THEN q
    ELSE sweep_tasks(sweep_task(q, u, t, ts[k]), u, t, ts, k + 1)

\* check_and_queue_daily_messages, run without interruption at time now.
\* What the collaborators answer is given: today_entry the journal's answer,
\* ts the list get_pending_tasks returns.
\* An exception leaves the method where it is raised: the rows queued
\* before it stay, nothing after it runs.
check_and_queue_daily_messages(q, u, today_entry, ts) ==
    LET pat == get_user_patterns(u)
        q1 == sweep_morning(q, u, now, pat)
        q2 == sweep_evening(q1, u, now, pat, today_entry)
        q3 == sweep_weekly(q2, u, now)
    IN IF ~strptime_ok(pat.typical_morning_time) THEN q
       ELSE IF ~strptime_ok(pat.typical_evening_time) THEN q1
       ELSE sweep_tasks(q3, u, now, ts, 1)

\* check_and_queue_daily_messages ends with an exception.
sweep_raises(u) ==
    \/ ~strptime_ok(get_user_patterns(u).typical_morning_time)
    \/ ~strptime_ok(get_user_patterns(u).typical_evening_time)

(* ------------------------------ Delivery poll -------------------------- *)

\* The loop of get_pending_messages_endpoint over the list msgs, from its
\* k-th element on: the policy reads the table as the loop has left it.
RECURSIVE poll_loop(_, _, _, _)
poll_loop(q, u, msgs, k) ==
    IF k > Len(msgs) THEN q
    ELSE LET msg == msgs[k]
             ready == should_send_message_now(q, u, msg.message_type, msg.scheduled_time)
         IN poll_loop(IF ready THEN mark_message_sent(q, msg.id) ELSE q, u, msgs, k + 1)

(* ------------------------------ Manual trigger ------------------------- *)

TriggerTypes == {"morning_checkin", "evening_reflection", "weekly_review", "encouragement"}

\* The message trigger_manual_message_endpoint generates for a known type.
trigger_message(u, type, context, today_entry) ==
    IF type = "morning_checkin" THEN generate_morning_checkin(u)
    ELSE IF type = "evening_reflection" THEN generate_evening_reflection(u, today_entry)
    ELSE IF type = "weekly_review" THEN generate_weekly_review_prompt(u)
    ELSE generate_encouragement(u, context)

\* trigger_manual_message that asks should_send_message_now before it marks
\* the new row sent
trigger_manual_message_if_allowed(q, u, type, context, today_entry) ==
    LET msg == trigger_message(u, type, context, today_entry)
        q1 == queue_message(q, u, msg.type, msg.priority, msg.content, now,
                            NoTask, "manual")
    IN IF should_send_message_now(q1, u, msg.type, now)
       THEN mark_message_sent(q1, Len(q1))
       ELSE q1

\* queue_message(..., scheduled_time = now) and mark_message_sent(lastrowid)
trigger_manual_message(q, u, type, context, today_entry) ==
    LET msg == trigger_message(u, type, context, today_entry)
        q1 == queue_message(q, u, msg.type, msg.priority, msg.content, now,
                            NoTask, "manual")
    IN mark_message_sent(q1, Len(q1))


(* ------------------------------ environment ---------------------------- *)

Idle == [pc |-> "idle"]
Sweepers == {"periodic", "script"}
Pollers == {"p1", "p2"}

FirstInstant == Combine(0, 3 * 60)

Task(id, due) == [id |-> id, due |-> due]
\* The lists get_pending_tasks answers with.
TaskLists ==
    {<<>>,
     <<Task(2, NoTime), Task(1, 1)>>}

\* The conversation timestamps a user has: none, or some of the day before
\* day 0 in both windows.
Histories ==
    {{},
     {Combine(0 - 1, 9 * 60 + 45), Combine(0 - 1, 10 * 60 + 16), Combine(0 - 1, 18 * 60)}}

\* The request bodies of update_user_patterns_endpoint that are tried.
PatternRequests ==
    {[typical_morning_time |-> NoStr, typical_evening_time |-> NoStr,
      quiet_hours_start |-> FormatHHMM(8 * 60), quiet_hours_end |-> FormatHHMM(9 * 60)]}

(* ------------------------------ the application ------------------------ *)

Init ==
    /\ now = FirstInstant
    /\ queue = <<>>
    /\ patterns = [u \in Users |-> NoRow]
    /\ sweepers = [w \in Sweepers |-> Idle]
    /\ pollers = [w \in Pollers |-> Idle]
    /\ call = Idle
    /\ conn = Open

\* Time passes.
Tick ==
    /\ \E t \in TimePoints :
        /\ t > now
        /\ \A t2 \in TimePoints : t2 > now => t <= t2
        /\ now' = t
    /\ UNCHANGED <<queue, patterns, sweepers, pollers, call, conn>>

\* One user's turn in a tick of periodic_message_check.
Sweep(u) ==
    /\ \E today_entry \in BOOLEAN, ts \in TaskLists :
        /\ Len(check_and_queue_daily_messages(queue, u, today_entry, ts)) <= MaxQueue
        /\ queue' = check_and_queue_daily_messages(queue, u, today_entry, ts)
    /\ UNCHANGED <<now, patterns, sweepers, pollers, call, conn>>

\* GET /api/messages/{user_id}/pending
Poll(u) ==
    /\ \E msgs \in get_pending_messages(queue, u, now) :
        queue' = poll_loop(queue, u, msgs, 1)
    /\ UNCHANGED <<now, patterns, sweepers, pollers, call, conn>>

\* POST /api/messages/{user_id}/trigger with a known type
Trigger(u) ==
    /\ Len(queue) < MaxQueue
    /\ Cardinality({i \in 1 .. Len(queue) : queue[i].origin = "manual"}) < MaxTriggers
    /\ \E type \in TriggerTypes, today_entry \in BOOLEAN :
        queue' = trigger_manual_message(queue, u, type, "tired", today_entry)
    /\ UNCHANGED <<now, patterns, sweepers, pollers, call, conn>>

\* POST /api/messages/{user_id}/trigger with any other type: HTTPException
TriggerUnknown(u) ==
    /\ UNCHANGED vars

\* POST /api/patterns/{user_id}/update
UpdatePatterns(u) ==
    /\ \E d \in PatternRequests :
        patterns' = [patterns EXCEPT ![u] = update_user_patterns(d)]
    /\ UNCHANGED <<now, queue, sweepers, pollers, call, conn>>

\* POST /api/patterns/{user_id}/learn
Learn(u) ==
    /\ \E conv \in Histories :
        patterns' = [patterns EXCEPT ![u] = learn_user_patterns(u, conv)]
    /\ UNCHANGED <<now, queue, sweepers, pollers, call, conn>>

Next ==
    \/ Tick
    \/ \E u \in Served : Sweep(u)
    \/ \E u \in Served : Poll(u)
    \/ \E u \in Users : Trigger(u)
    \/ \E u \in Served : TriggerUnknown(u)
    \/ \E u \in Served : UpdatePatterns(u)
    \/ \E u \in Served : Learn(u)

Spec == Init /\ [][Next]_vars


(* ---------------- processes that share the database file --------------- *)

\* Executions of check_and_queue_daily_messages (by the server's periodic
\* task and by active_partner_system.py run as a script on the same
\* partner_ai.db) and of get_pending_messages_endpoint (by two servers on
\* that file), each advancing by one SQL statement at a time; SQLite
\* serializes the statements, nothing more.

\* The first task from the k-th on that passes the due-date tests.
RECURSIVE next_due(_, _, _)
next_due(ts, k, t) ==
    IF k > Len(ts) THEN k
    ELSE IF reminder_due(ts[k], t) THEN k
    ELSE next_due(ts, k + 1, t)

\* The periodic task reaches user u:
\* now = datetime.now(); patterns = self.get_user_patterns(user_id)
SweepBegin(u) ==
    /\ sweepers["periodic"].pc = "idle"
    /\ sweepers' = [sweepers EXCEPT !["periodic"] =
            [pc |-> "morning", user_id |-> u, t |-> now,
             pat |-> get_user_patterns(u), tasks |-> <<>>, k |-> 0]]
    /\ UNCHANGED <<now, queue, patterns, pollers, call, conn>>

\* The script starts: initiator.learn_user_patterns(user_id), then
\* check_and_queue_daily_messages(user_id) up to its first SELECT.
ScriptBegin(u) ==
    /\ sweepers["script"].pc = "idle"
    /\ \E conv \in Histories :
        LET row == learn_user_patterns(u, conv)
        IN /\ patterns' = [patterns EXCEPT ![u] = row]
           /\ sweepers' = [sweepers EXCEPT !["script"] =
                [pc |-> "morning", user_id |-> u, t |-> now,
                 pat |-> IF row.stored THEN row ELSE _get_default_patterns,
                 tasks |-> <<>>, k |-> 0]]
    /\ UNCHANGED <<now, queue, pollers, call, conn>>

\* The sweeper at the end of check_and_queue_daily_messages: the periodic
\* task is free for its next user or tick, the script ends.
Finished(w) == IF w = "script" THEN [pc |-> "exited"] ELSE Idle

\* The sweeper w moves to the step pc.
goto(w, pc) == [sweepers EXCEPT ![w].pc = pc]

\* SELECT ... message_type = 'morning_checkin' ...; if not c.fetchone()
SweepMorningCheck(w) ==
    LET s == sweepers[w]
    IN /\ s.pc = "morning"
       /\ sweepers' = goto(w, IF queued_today(queue, s.user_id, MorningKinds, s.t)
                               THEN "evening" ELSE "morning_insert")
       /\ UNCHANGED <<now, queue, patterns, pollers, call, conn>>

SweepMorningInsert(w) ==
    LET s == sweepers[w]
    IN /\ s.pc = "morning_insert"
       /\ Len(queue) < MaxQueue
       /\ queue' = insert_morning(queue, s.user_id, s.t, s.pat)
       /\ sweepers' = goto(w, "evening")
       /\ UNCHANGED <<now, patterns, pollers, call, conn>>

\* SELECT ... message_type IN ('evening_reflection', 'evening_simple') ...;
\* after it, if now.weekday() == 6
SweepEveningCheck(w) ==
    LET s == sweepers[w]
    IN /\ s.pc = "evening"
       /\ sweepers' = goto(w, IF ~queued_today(queue, s.user_id, EveningKinds, s.t)
                               THEN "evening_insert"
                               ELSE IF WeekdayOf(s.t) = Sunday THEN "weekly" ELSE "tasks")
       /\ UNCHANGED <<now, queue, patterns, pollers, call, conn>>

SweepEveningInsert(w) ==
    LET s == sweepers[w]
    IN /\ s.pc = "evening_insert"
       /\ Len(queue) < MaxQueue
       /\ \E today_entry \in BOOLEAN :
            queue' = insert_evening(queue, s.user_id, s.t, s.pat, today_entry)
       /\ sweepers' = goto(w, IF WeekdayOf(s.t) = Sunday THEN "weekly" ELSE "tasks")
       /\ UNCHANGED <<now, patterns, pollers, call, conn>>

\* SELECT ... message_type = 'weekly_review' ...
SweepWeeklyCheck(w) ==
    LET s == sweepers[w]
    IN /\ s.pc = "weekly"
       /\ sweepers' = goto(w, IF queued_today(queue, s.user_id, WeeklyKinds, s.t)
                               THEN "tasks" ELSE "weekly_insert")
       /\ UNCHANGED <<now, queue, patterns, pollers, call, conn>>

SweepWeeklyInsert(w) ==
    LET s == sweepers[w]
    IN /\ s.pc = "weekly_insert"
       /\ Len(queue) < MaxQueue
       /\ queue' = insert_weekly(queue, s.user_id, s.t)
       /\ sweepers' = goto(w, "tasks")
       /\ UNCHANGED <<now, patterns, pollers, call, conn>>

\* The sweeper after the task before the k-th: at the next task that is
\* due, or done.
to_task(w, ts, k) ==
    LET k2 == next_due(ts, k, sweepers[w].t)
    IN [sweepers EXCEPT ![w] =
            IF k2 > Len(ts) THEN Finished(w)
            ELSE [sweepers[w] EXCEPT !.pc = "task", !.tasks = ts, !.k = k2]]

\* tasks = self.schedule_mgr.get_pending_tasks(user_id)
SweepTasks(w) ==
    /\ sweepers[w].pc = "tasks"
    /\ \E ts \in TaskLists : sweepers' = to_task(w, ts, 1)
    /\ UNCHANGED <<now, queue, patterns, pollers, call, conn>>

\* SELECT ... message_type = 'task_reminder' AND metadata LIKE ? ...
SweepTaskCheck(w) ==
    LET s == sweepers[w]
    IN /\ s.pc = "task"
       /\ sweepers' =
            IF reminder_queued_today(queue, s.user_id, s.tasks[s.k].id, s.t)
            THEN to_task(w, s.tasks, s.k + 1)
            ELSE goto(w, "task_insert")
       /\ UNCHANGED <<now, queue, patterns, pollers, call, conn>>

SweepTaskInsert(w) ==
    LET s == sweepers[w]
    IN /\ s.pc = "task_insert"
       /\ Len(queue) < MaxQueue
       /\ queue' = insert_reminder(queue, s.user_id, s.t, s.tasks[s.k])
       /\ sweepers' = to_task(w, s.tasks, s.k + 1)
       /\ UNCHANGED <<now, patterns, pollers, call, conn>>

\* messages = conversation_initiator.get_pending_messages(user_id)
PollList(w, u) ==
    /\ pollers[w].pc = "idle"
    /\ \E msgs \in get_pending_messages(queue, u, now) :
        /\ msgs # <<>>
        /\ pollers' = [pollers EXCEPT ![w] =
                [pc |-> "decide", user_id |-> u, msgs |-> msgs, k |-> 1]]
    /\ UNCHANGED <<now, queue, patterns, sweepers, call, conn>>

\* The poller after the k-th message of its list.
next_message(w) ==
    LET r == pollers[w]
    IN [pollers EXCEPT ![w] =
            IF r.k >= Len(r.msgs) THEN Idle
            ELSE [r EXCEPT !.pc = "decide", !.k = r.k + 1]]

\* if conversation_initiator.should_send_message_now(...)
PollDecide(w) ==
    LET r == pollers[w]
    IN /\ r.pc = "decide"
       /\ pollers' =
            IF should_send_message_now(queue, r.user_id, r.msgs[r.k].message_type,
                                       r.msgs[r.k].scheduled_time)
            THEN [pollers EXCEPT ![w].pc = "mark"]
            ELSE next_message(w)
       /\ UNCHANGED <<now, queue, patterns, sweepers, call, conn>>

\* conversation_initiator.mark_message_sent(msg['id'])
PollMark(w) ==
    LET r == pollers[w]
    IN /\ r.pc = "mark"
       /\ queue' = mark_message_sent(queue, r.msgs[r.k].id)
       /\ pollers' = next_message(w)
       /\ UNCHANGED <<now, patterns, sweepers, call, conn>>

NextSweeps ==
    \/ Tick
    \/ \E u \in Served : SweepBegin(u)
    \/ \E u \in Served : ScriptBegin(u)
    \/ \E w \in Sweepers : SweepMorningCheck(w)
    \/ \E w \in Sweepers : SweepMorningInsert(w)
    \/ \E w \in Sweepers : SweepEveningCheck(w)
    \/ \E w \in Sweepers : SweepEveningInsert(w)
    \/ \E w \in Sweepers : SweepWeeklyCheck(w)
    \/ \E w \in Sweepers : SweepWeeklyInsert(w)
    \/ \E w \in Sweepers : SweepTasks(w)
    \/ \E w \in Sweepers : SweepTaskCheck(w)
    \/ \E w \in Sweepers : SweepTaskInsert(w)

SpecSweeps == Init /\ [][NextSweeps]_vars

NextPolls ==
    \/ Tick
    \/ \E u \in Served : Sweep(u)
    \/ \E w \in Pollers, u \in Served : PollList(w, u)
    \/ \E w \in Pollers : PollDecide(w)
    \/ \E w \in Pollers : PollMark(w)

SpecPolls == Init /\ [][NextPolls]_vars

(* ------------------------- once per day (C1, C2) ----------------------- *)

MorningGroup == {"morning_checkin"}
EveningGroup == {"evening_reflection", "evening_simple"}
WeeklyGroup == {"weekly_review"}
CanonicalGroups == {MorningGroup, EveningGroup, WeeklyGroup}

\* Rows i and j are of one user and scheduled on one calendar date.
SameUserAndDate(i, j) ==
    /\ queue[i].user_id = queue[j].user_id
    /\ DateOf(queue[i].scheduled_time) = DateOf(queue[j].scheduled_time)

\* Rows i and j are of the same canonical recurring kind.
SameCanonicalKind(i, j) ==
    \E kinds \in CanonicalGroups :
        queue[i].message_type \in kinds /\ queue[j].message_type \in kinds

\* Rows i and j are reminders of the same task.
SameReminder(i, j) ==
    /\ queue[i].message_type = "task_reminder"
    /\ queue[j].message_type = "task_reminder"
    /\ queue[i].metadata = queue[j].metadata

\* C1: however often the sweep runs for a user on a day, it enqueues at most
\* one morning_checkin row, at most one evening row (evening_reflection or
\* evening_simple), at most one weekly_review row and at most one
\* task_reminder row per task id for that day, and a sweep run again at the
\* same now, with the same answers of its collaborators, leaves the queue as
\* the first left it.
C1_SweepOncePerDay ==
    /\ \A i, j \in 1 .. Len(queue) :
        (/\ i < j
         /\ queue[i].origin = "sweep"
         /\ queue[j].origin = "sweep"
         /\ SameUserAndDate(i, j))
        => ~SameCanonicalKind(i, j) /\ ~SameReminder(i, j)
    /\ \A u \in Served, today_entry \in BOOLEAN, ts \in TaskLists :
        LET first == check_and_queue_daily_messages(queue, u, today_entry, ts)
        IN check_and_queue_daily_messages(first, u, today_entry, ts) = first

\* The sweep has given u1 a morning row, an evening row and the reminder of
\* task 1 for today, and the sweep run again adds nothing.
C1_Witness ==
    /\ \E i, j, k \in 1 .. Len(queue) :
        /\ \A r \in {i, j, k} :
            /\ queue[r].origin = "sweep"
            /\ queue[r].user_id = "u1"
            /\ DateOf(queue[r].scheduled_time) = DateOf(now)
        /\ queue[i].message_type \in MorningGroup
        /\ queue[j].message_type \in EveningGroup
        /\ queue[k].message_type = "task_reminder" /\ queue[k].metadata = 1
    /\ \A today_entry \in BOOLEAN, ts \in TaskLists :
        check_and_queue_daily_messages(queue, "u1", today_entry, ts) = queue

\* C2 as stated: the queue never holds two rows of the same canonical
\* recurring kind (morning_checkin, the evening group, weekly_review) of one
\* user scheduled on the same calendar date.
C2_NoTwoOfAKindPerDay ==
    \A i, j \in 1 .. Len(queue) :
        (i < j /\ SameUserAndDate(i, j)) => ~SameCanonicalKind(i, j)

\* C2 amended: of two rows of the same canonical recurring kind of one user
\* scheduled on the same calendar date, the later one was made by a manual
\* trigger; the sweep never adds a row to one that is there.
C2_LaterDuplicateIsManual ==
    \A i, j \in 1 .. Len(queue) :
        (i < j /\ SameUserAndDate(i, j) /\ SameCanonicalKind(i, j))
        => queue[j].origin = "manual"

\* A sweep's morning row of today followed by a manually triggered one.
C2_Witness ==
    \E i, j \in 1 .. Len(queue) :
        /\ i < j
        /\ SameUserAndDate(i, j)
        /\ queue[i].message_type = "morning_checkin"
        /\ queue[j].message_type = "morning_checkin"
        /\ queue[i].origin = "sweep"
        /\ queue[j].origin = "manual"

(* --------------------------- quiet hours (C5) -------------------------- *)

InHardQuiet(t) == HourOf(t) < 6 \/ HourOf(t) >= 23

\* t lies in the quiet-hours window stored for u.
InStoredQuiet(u, t) ==
    /\ patterns[u].stored
    /\ patterns[u].quiet_hours_start # NoStr
    /\ patterns[u].quiet_hours_end # NoStr
    /\ ParseHHMM(patterns[u].quiet_hours_start) <= TimeOfDay(t)
    /\ TimeOfDay(t) <= ParseHHMM(patterns[u].quiet_hours_end)

\* Row i is released by the step: it is sent after it and was not before.
Released(i) ==
    /\ i \in 1 .. Len(queue')
    /\ queue'[i].sent
    /\ (i > Len(queue) \/ ~queue[i].sent)

\* C5: no step releases a message (marks it sent) while the current time is
\* inside the hard quiet window (hour < 6 or hour >= 23) or inside the
\* quiet-hours window stored for the message's user.
C5_NoReleaseInQuietHours ==
    [][\A i \in 1 .. Len(queue') :
          Released(i) =>
             /\ ~InHardQuiet(now)
             /\ ~InStoredQuiet(queue'[i].user_id, now)]_vars


(* --------------- should_send_message_now on its own -------------------- *)

\* The instants at which the policy is asked; T is the scheduled_time given.
PolicyT == Combine(0, 8 * 60)
PolicyNows ==
    {Combine(0, 3 * 60), Combine(0, 5 * 60 + 59), Combine(0, 6 * 60),
     PolicyT - 16, PolicyT - 15, PolicyT, PolicyT + 15, PolicyT + 16,
     Combine(0, 22 * 60 + 59), Combine(0, 23 * 60)}

StoredPattern(qs, qe) ==
    [stored |-> TRUE,
     typical_morning_time |-> FormatHHMM(8 * 60),
     typical_evening_time |-> FormatHHMM(20 * 60),
     quiet_hours_start |-> qs, quiet_hours_end |-> qe]

\* The rows of user_activity_patterns tried: none, a window within the day,
\* a window that wraps past midnight, a window with no end.
PolicyPatterns ==
    {NoRow,
     StoredPattern(FormatHHMM(8 * 60), FormatHHMM(8 * 60 + 15)),
     StoredPattern(FormatHHMM(22 * 60), FormatHHMM(7 * 60)),
     StoredPattern(FormatHHMM(8 * 60), NoStr)}

\* A row as a manual trigger at time at leaves it, and one not yet sent.
HistoryRow(u, at, sent) ==
    [user_id |-> u,
     message_type |-> "encouragement",
     priority |-> MEDIUM,
     message_content |-> Body("tired", 0),
     scheduled_time |-> at,
     sent |-> sent, sent_at |-> IF sent THEN at ELSE NoTime,
     acknowledged |-> FALSE, acknowledged_at |-> NoTime,
     metadata |-> NoTask,
     origin |-> IF sent THEN "manual" ELSE "sweep",
     marks |-> IF sent THEN 1 ELSE 0]

\* How many minutes before now the messages of u1 were sent.
SendHistories ==
    {<<>>, <<30, 5>>, <<50, 30, 5>>, <<60, 30, 5>>, <<61, 30, 5>>, <<55, 50, 30, 5>>}

\* The table at time t: three rows of u2 sent in the last hour, one row of
\* u1 not sent, and the rows of u1 sent as h tells.
PolicyQueue(h, t) ==
    <<HistoryRow("u2", t - 40, TRUE), HistoryRow("u2", t - 20, TRUE),
      HistoryRow("u2", t - 10, TRUE), HistoryRow("u1", t, FALSE)>>
    \o [k \in 1 .. Len(h) |-> HistoryRow("u1", t - h[k], TRUE)]

InitPolicy ==
    /\ now \in PolicyNows
    /\ \E p \in PolicyPatterns : patterns = [u \in Users |-> IF u = "u1" THEN p ELSE NoRow]
    /\ \E h \in SendHistories : queue = PolicyQueue(h, now)
    /\ \E u \in Users, st \in {NoTime, PolicyT} :
        call = [pc |-> "call", user_id |-> u, message_type |-> "morning_checkin",
                  scheduled_time |-> st, rule |-> "none", verdict |-> FALSE]
    /\ sweepers = [w \in Sweepers |-> Idle]
    /\ pollers = [w \in Pollers |-> Idle]
    /\ conn = Open

\* should_send_message_now(user_id, message_type, scheduled_time) returns.
Decide ==
    /\ call.pc = "call"
    /\ call' =
        [call EXCEPT
            !.pc = "returned",
            !.rule = policy_rule(queue, get_user_patterns(call.user_id),
                                 call.user_id, call.scheduled_time, now),
            !.verdict = should_send_message_now(queue, call.user_id,
                                 call.message_type, call.scheduled_time)]
    /\ UNCHANGED <<now, queue, patterns, sweepers, pollers, conn>>

NextPolicy == Decide

SpecPolicy == InitPolicy /\ [][NextPolicy]_vars

Returned == call.pc = "returned"

\* The messages of u sent within the hour before now.
SentInLastHour(u) ==
    {i \in 1 .. Len(queue) :
        /\ queue[i].user_id = u
        /\ queue[i].sent
        /\ now - 60 <= queue[i].sent_at
        /\ queue[i].sent_at <= now}

\* Both quiet_hours_start and quiet_hours_end are stored for u, as minutes.
HasQuietWindow(u) ==
    /\ patterns[u].stored
    /\ patterns[u].quiet_hours_start # NoStr
    /\ patterns[u].quiet_hours_end # NoStr
QuietStart(u) == patterns[u].quiet_hours_start[1] * 60 + patterns[u].quiet_hours_start[2]
QuietEnd(u) == patterns[u].quiet_hours_end[1] * 60 + patterns[u].quiet_hours_end[2]

\* C6: should_send_message_now returns false whenever the current hour is
\* below 6 or at least 23, whatever the user, the scheduled_time, the stored
\* pattern and the send history.
C6_HardQuietRejects ==
    (Returned /\ (HourOf(now) < 6 \/ HourOf(now) >= 23)) => ~call.verdict

\* Asked at 23:00 with no quiet hours, no recent send and no scheduled_time,
\* the policy says no.
C6_Witness ==
    /\ Returned
    /\ HourOf(now) = 23
    /\ ~HasQuietWindow(call.user_id)
    /\ SentInLastHour(call.user_id) = {}
    /\ call.scheduled_time = NoTime
    /\ ~call.verdict

\* C7: when the hard quiet rule passes, the call is rejected by the user
\* quiet-hours rule exactly when both quiet_hours_start and quiet_hours_end
\* are stored and start <= time of day <= end; a window with start > end is
\* never the reason of a rejection.
C7_UserQuietRule ==
    (Returned /\ ~(HourOf(now) < 6 \/ HourOf(now) >= 23)) =>
        LET u == call.user_id
        IN /\ call.rule = "user_quiet" <=>
                /\ HasQuietWindow(u)
                /\ QuietStart(u) <= TimeOfDay(now)
                /\ TimeOfDay(now) <= QuietEnd(u)
           /\ (HasQuietWindow(u) /\ QuietStart(u) > QuietEnd(u))
                => call.rule # "user_quiet"
           /\ call.rule = "user_quiet" => ~call.verdict

\* Asked at 22:59 with the window 22:00 to 07:00 stored, the policy lets the
\* message go.
C7_Witness ==
    /\ Returned
    /\ HasQuietWindow(call.user_id)
    /\ QuietStart(call.user_id) > QuietEnd(call.user_id)
    /\ TimeOfDay(now) >= QuietStart(call.user_id)
    /\ HourOf(now) < 23
    /\ call.verdict

\* C8: the call returns false whenever at least 3 messages of the user were
\* sent within the hour before now, whatever the kind and scheduled_time, and
\* with fewer than 3 the rate limit is not the rule that rejects.
C8_RateLimit ==
    Returned =>
        /\ Cardinality(SentInLastHour(call.user_id)) >= 3 => ~call.verdict
        /\ Cardinality(SentInLastHour(call.user_id)) < 3
            => call.rule # "rate_limit"

\* Three sends of u1 in the last hour, at a time and with a scheduled_time
\* that no other rule objects to: the rate limit rejects.
C8_Witness ==
    /\ Returned
    /\ call.user_id = "u1"
    /\ Cardinality(SentInLastHour("u1")) = 3
    /\ now = PolicyT
    /\ ~HasQuietWindow("u1")
    /\ call.rule = "rate_limit"
    /\ ~call.verdict

\* C9: when the quiet-hour rules and the rate limit pass, a call with a
\* scheduled_time T returns true exactly when |now - T| <= 15 minutes, and a
\* call without a scheduled_time returns true.
C9_ScheduleWindow ==
    LET u == call.user_id
        T == call.scheduled_time
    IN (/\ Returned
        /\ ~(HourOf(now) < 6 \/ HourOf(now) >= 23)
        /\ ~(/\ HasQuietWindow(u)
             /\ QuietStart(u) <= TimeOfDay(now)
             /\ TimeOfDay(now) <= QuietEnd(u))
        /\ Cardinality(SentInLastHour(u)) < 3)
       => IF T = NoTime THEN call.verdict
          ELSE call.verdict <=> (now - T <= 15 /\ T - now <= 15)

\* Asked 16 minutes after the scheduled_time, with nothing else against it,
\* the policy says no.
C9_Witness ==
    /\ Returned
    /\ call.scheduled_time # NoTime
    /\ now = call.scheduled_time + 16
    /\ ~HasQuietWindow(call.user_id)
    /\ Cardinality(SentInLastHour(call.user_id)) < 3
    /\ call.rule = "off_schedule"
    /\ ~call.verdict


(* ------------------------- overlapping executions (C3, C4) ------------- *)

\* C3: the sent flag of a queued message is set exactly once: no message is
\* marked sent by two delivery polls, also when two polls for the same user
\* interleave between listing, deciding and marking.
C3_SentSetOnce ==
    \A i \in 1 .. Len(queue) : queue[i].marks <= 1

InsertSteps == {"morning_insert", "evening_insert", "weekly_insert", "task_insert"}

\* C4: nothing serializes a sweep's existence check and its insert: a sweep
\* execution whose check found no row appends its row for its user and date
\* whatever the table has come to hold since, so two overlapping executions
\* that both checked before either inserted leave two rows of one kind.
C4_InsertFollowsStaleCheck ==
    [][\A w \in Sweepers :
        (sweepers[w].pc \in InsertSteps /\ sweepers'[w] # sweepers[w]) =>
            /\ Len(queue') = Len(queue) + 1
            /\ queue'[Len(queue')].origin = "sweep"
            /\ queue'[Len(queue')].user_id = sweepers[w].user_id
            /\ DateOf(queue'[Len(queue')].scheduled_time) = DateOf(sweepers[w].t)]_vars

\* Two rows enqueued by sweeps for one user, kind and date.
C4_Witness ==
    \E i, j \in 1 .. Len(queue) :
        /\ i < j
        /\ queue[i].origin = "sweep"
        /\ queue[j].origin = "sweep"
        /\ SameUserAndDate(i, j)
        /\ SameCanonicalKind(i, j) \/ SameReminder(i, j)


(* --------------------- the queue's methods on their own (C10) ---------- *)

QueueStart == Combine(1, 8 * 60)

\* The queue_message calls made, each at most once and in any order; a
\* scheduled_time of NoTime is the argument left out.
QueueRequests ==
    {[user_id |-> "u1", priority |-> MEDIUM, content |-> Body("a", 0),
      scheduled_time |-> NoTime],
     [user_id |-> "u1", priority |-> HIGH, content |-> Body("b", 0),
      scheduled_time |-> Combine(1, 10 * 60)],
     [user_id |-> "u1", priority |-> HIGH, content |-> Body("c", 0),
      scheduled_time |-> NoTime],
     [user_id |-> "u2", priority |-> HIGH, content |-> Body("d", 0),
      scheduled_time |-> NoTime]}

InitQueue ==
    /\ now = QueueStart
    /\ queue = <<>>
    /\ patterns = [u \in Users |-> NoRow]
    /\ sweepers = [w \in Sweepers |-> Idle]
    /\ pollers = [w \in Pollers |-> Idle]
    /\ call = Idle
    /\ conn = Open

\* message_id = queue_message(user_id, "encouragement", priority, content,
\* scheduled_time)
QueueMessage(r) ==
    /\ \A i \in 1 .. Len(queue) : queue[i].message_content # r.content
    /\ queue' = queue_message(queue, r.user_id, "encouragement", r.priority,
                              r.content, r.scheduled_time, NoTask, "caller")
    /\ call' = [pc |-> "returned", op |-> "queue_message", request |-> r,
                message_id |-> Len(queue) + 1]
    /\ UNCHANGED <<now, patterns, sweepers, pollers, conn>>

\* get_pending_messages(user_id)
ListDue(u) ==
    /\ \E msgs \in get_pending_messages(queue, u, now) :
        call' = [pc |-> "returned", op |-> "get_pending_messages", user_id |-> u,
                 messages |-> msgs]
    /\ UNCHANGED <<now, queue, patterns, sweepers, pollers, conn>>

\* mark_message_sent(message_id), of a row or of no row
MarkSent(id) ==
    /\ id \in 1 .. Len(queue) => queue[id].marks < MaxMarks
    /\ queue' = mark_message_sent(queue, id)
    /\ call' = [pc |-> "returned", op |-> "mark_message_sent", message_id |-> id,
                found |-> update_found(queue, id)]
    /\ UNCHANGED <<now, patterns, sweepers, pollers, conn>>

NextQueue ==
    \/ Tick
    \/ \E r \in QueueRequests : QueueMessage(r)
    \/ \E u \in Users : ListDue(u)
    \/ \E id \in 1 .. Len(queue) + 1 : MarkSent(id)

SpecQueue == InitQueue /\ [][NextQueue]_vars

\* The list msgs holds exactly the rows of u in q that are not sent and are
\* scheduled at or before t, each once, with the content stored at enqueue,
\* by priority and then by scheduled_time.
IsListDue(msgs, q, u, t) ==
    /\ \A k \in 1 .. Len(msgs) :
        /\ msgs[k].id \in 1 .. Len(q)
        /\ q[msgs[k].id].user_id = u
        /\ ~q[msgs[k].id].sent
        /\ q[msgs[k].id].scheduled_time <= t
        /\ msgs[k].content = q[msgs[k].id].message_content
        /\ msgs[k].priority = q[msgs[k].id].priority
        /\ msgs[k].scheduled_time = q[msgs[k].id].scheduled_time
    /\ \A i \in 1 .. Len(q) :
        (q[i].user_id = u /\ ~q[i].sent /\ q[i].scheduled_time <= t)
            => \E k \in 1 .. Len(msgs) : msgs[k].id = i
    /\ \A k, l \in 1 .. Len(msgs) : k < l =>
        /\ msgs[k].id # msgs[l].id
        /\ msgs[k].priority <= msgs[l].priority
        /\ msgs[k].priority = msgs[l].priority
            => msgs[k].scheduled_time <= msgs[l].scheduled_time

Listed(msgs, id) == \E k \in 1 .. Len(msgs) : msgs[k].id = id

\* C10: get_pending_messages for user u at time now returns exactly u's rows
\* with sent = 0 and scheduled_time <= now, each with the body given at
\* enqueue, by priority ascending and then scheduled_time ascending; a
\* message enqueued with the default scheduled_time is in the list from then
\* on, and after mark_message_sent on its id it is in no list.
C10_ListDue ==
    [][/\ (call'.pc = "returned" /\ call'.op = "get_pending_messages"
                /\ queue' = queue /\ now' = now)
            => IsListDue(call'.messages, queue, call'.user_id, now)
       /\ (call'.pc = "returned" /\ call'.op = "queue_message"
                /\ Len(queue') = Len(queue) + 1
                /\ call'.request.scheduled_time = NoTime)
            => \A t \in TimePoints : t >= now =>
                \A msgs \in get_pending_messages(queue', call'.request.user_id, t) :
                    \E k \in 1 .. Len(msgs) :
                        /\ msgs[k].id = call'.message_id
                        /\ msgs[k].content = call'.request.content
       /\ (call'.pc = "returned" /\ call'.op = "mark_message_sent" /\ now' = now /\ call'.found)
            => \A u \in Users, t \in TimePoints :
                \A msgs \in get_pending_messages(queue', u, t) :
                    ~Listed(msgs, call'.message_id)]_vars

\* A list of two entries returned in another order than the rows were
\* enqueued, while a sent row and a row of a later scheduled_time of the same
\* user stay out of it.
C10_Witness ==
    /\ call.pc = "returned"
    /\ call.op = "get_pending_messages"
    /\ Len(call.messages) = 2
    /\ call.messages[1].id > call.messages[2].id
    /\ IsListDue(call.messages, queue, call.user_id, now)
    /\ \E i \in 1 .. Len(queue) :
        /\ queue[i].user_id = call.user_id
        /\ queue[i].sent \/ queue[i].scheduled_time > now


(* ------------------- a sweep that meets an exception (C11) ------------- *)

\* The request bodies of update_user_patterns_endpoint tried here: one with
\* an evening time strptime rejects ("25:00"), one with 19:00.
FaultRequests ==
    {[typical_morning_time |-> NoStr, typical_evening_time |-> <<25, 0>>,
      quiet_hours_start |-> NoStr, quiet_hours_end |-> NoStr],
     [typical_morning_time |-> NoStr, typical_evening_time |-> FormatHHMM(19 * 60),
      quiet_hours_start |-> NoStr, quiet_hours_end |-> NoStr]}

\* POST /api/patterns/{user_id}/update: the strings are stored as given.
UpdatePatternsAny(u) ==
    /\ \E d \in FaultRequests :
        patterns' = [patterns EXCEPT ![u] = update_user_patterns(d)]
    /\ UNCHANGED <<now, queue, sweepers, pollers, call, conn>>

\* Lists get_pending_tasks answers with when tasks 1 and 10 are both due on
\* day 1: get_pending_tasks orders by priority, so either may come first.
PrefixTaskLists ==
    {<<Task(10, 1), Task(1, 1)>>, <<Task(1, 1), Task(10, 1)>>}

\* check_and_queue_daily_messages(user_id), and how the call ended.
SweepCall(u) ==
    /\ \E today_entry \in BOOLEAN, ts \in TaskLists \cup PrefixTaskLists :
        /\ Len(check_and_queue_daily_messages(queue, u, today_entry, ts)) <= MaxQueue
        /\ queue' = check_and_queue_daily_messages(queue, u, today_entry, ts)
        /\ call' = [pc |-> "returned", op |-> "check_and_queue_daily_messages",
                    user_id |-> u, t |-> now, tasks |-> ts,
                    raised |-> sweep_raises(u)]
    /\ UNCHANGED <<now, patterns, sweepers, pollers, conn>>

NextFaults ==
    \/ Tick
    \/ \E u \in Served : UpdatePatternsAny(u)
    \/ \E u \in Served : SweepCall(u)

SpecFaults == Init /\ [][NextFaults]_vars

HasRowToday(q, u, kinds, t) ==
    \E i \in 1 .. Len(q) :
        /\ q[i].user_id = u
        /\ q[i].message_type \in kinds
        /\ DateOf(q[i].scheduled_time) = DateOf(t)

\* C11: a failure in one category of the sweep does not abort the others:
\* when a sweep call has ended with an exception raised in the evening
\* category, there is on a Sunday a weekly_review row of today, and a
\* task_reminder of today for every task due today or tomorrow.
C11_CategoriesIsolated ==
    [][(/\ call'.pc = "returned"
        /\ call'.op = "check_and_queue_daily_messages"
        /\ call'.raised
        /\ now' = now /\ patterns' = patterns)
       => /\ WeekdayOf(now) = 6
                => HasRowToday(queue', call'.user_id, {"weekly_review"}, now)
          /\ \A k \in 1 .. Len(call'.tasks) :
                (/\ call'.tasks[k].due # NoTime
                 /\ call'.tasks[k].due - DateOf(now) \in 0 .. 1)
                => \E i \in 1 .. Len(queue') :
                    /\ queue'[i].user_id = call'.user_id
                    /\ queue'[i].message_type = "task_reminder"
                    /\ queue'[i].metadata = call'.tasks[k].id
                    /\ DateOf(queue'[i].scheduled_time) = DateOf(now)]_vars


(* --------------- marking rows sent and acknowledged (C12) -------------- *)

\* The queue_message calls made here: one for each user.
MarkRequests ==
    {r \in QueueRequests : r.priority = HIGH /\ r.scheduled_time = NoTime}

\* mark_message_acknowledged(message_id), of a row or of no row
MarkAcknowledged(id) ==
    /\ queue' = mark_message_acknowledged(queue, id)
    /\ call' = [pc |-> "returned", op |-> "mark_message_acknowledged",
                message_id |-> id, found |-> update_found(queue, id)]
    /\ UNCHANGED <<now, patterns, sweepers, pollers, conn>>

NextMarks ==
    \/ Tick
    \/ \E r \in MarkRequests : QueueMessage(r)
    \/ \E id \in 1 .. Len(queue) + 1 : MarkSent(id)
    \/ \E id \in 1 .. Len(queue) + 1 : MarkAcknowledged(id)

SpecMarks == InitQueue /\ [][NextMarks]_vars

MarkOps == {"mark_message_sent", "mark_message_acknowledged"}

\* C12: mark_message_sent and mark_message_acknowledged called with an id
\* that no row has return false and leave every row of the queue as it was.
C12_UnknownIdIsNoOp ==
    [][(/\ call'.pc = "returned"
        /\ call'.op \in MarkOps
        /\ now' = now
        /\ call'.message_id \notin 1 .. Len(queue))
       => (~call'.found /\ queue' = queue)]_vars

\* mark_message_acknowledged has returned false for an id no row has, with
\* rows in the queue that it could have touched.
C12_Witness ==
    /\ call.pc = "returned"
    /\ call.op = "mark_message_acknowledged"
    /\ Len(queue) = 2
    /\ call.message_id = 3
    /\ ~call.found
    /\ \A i \in 1 .. 2 : ~queue[i].acknowledged


(* ------------------- what a row keeps for good (C16, C17) -------------- *)

\* The columns of a row that no UPDATE of the program names.
Fixed(row) ==
    <<row.user_id, row.message_type, row.priority, row.message_content,
      row.scheduled_time, row.metadata>>

\* C16: no step removes a row of the queue; a row made by queue_message
\* holds the arguments of the call under the next id; and the id, user_id,
\* message_type, priority, message_content, scheduled_time and metadata of
\* a row are in every step what they were before it.
C16_RowsKeepTheirContent ==
    [][/\ Len(queue') >= Len(queue)
       /\ \A i \in 1 .. Len(queue) : Fixed(queue'[i]) = Fixed(queue[i])
       /\ Len(queue') > Len(queue) =>
            /\ Len(queue') = Len(queue) + 1
            /\ call'.pc = "returned" /\ call'.op = "queue_message"
            /\ call'.message_id = Len(queue')
            /\ Fixed(queue'[Len(queue')]) =
                 <<call'.request.user_id, "encouragement",
                   call'.request.priority, call'.request.content, now, NoTask>>
      ]_vars

\* A row made at one time was marked sent and acknowledged at a later time
\* and still holds what queue_message stored, next to a row of another user.
C16_Witness ==
    /\ Len(queue) = 2
    /\ queue[1].sent /\ queue[1].acknowledged
    /\ queue[1].sent_at > queue[1].scheduled_time
    /\ queue[1].acknowledged_at > queue[1].scheduled_time
    /\ queue[1].scheduled_time = QueueStart
    /\ queue[1].user_id = "u1"
    /\ queue[1].message_content = Body("c", 0)
    /\ queue[2].user_id = "u2"

\* sent goes with sent_at and acknowledged with acknowledged_at.
FlagsMatchTimes(row) ==
    /\ row.sent <=> row.sent_at # NoTime
    /\ row.acknowledged <=> row.acknowledged_at # NoTime

\* C17: in every state each row has sent exactly when sent_at is set and
\* acknowledged exactly when acknowledged_at is set; a new row has neither
\* flag; and a flag that is true stays true.
C17_FlagsAndTimes ==
    /\ [](\A i \in 1 .. Len(queue) : FlagsMatchTimes(queue[i]))
    /\ [][(\A i \in (Len(queue) + 1) .. Len(queue') :
                ~queue'[i].sent /\ ~queue'[i].acknowledged)
           /\ (\A j \in 1 .. Len(queue) :
                /\ j <= Len(queue')
                /\ queue[j].sent => queue'[j].sent
                /\ queue[j].acknowledged => queue'[j].acknowledged)]_vars

\* A row is acknowledged and not sent, another is sent and not
\* acknowledged: each flag was set with its own time and without the other.
C17_Witness ==
    /\ Len(queue) = 2
    /\ queue[1].acknowledged /\ queue[1].acknowledged_at # NoTime
    /\ ~queue[1].sent /\ queue[1].sent_at = NoTime
    /\ queue[2].sent /\ queue[2].sent_at # NoTime
    /\ ~queue[2].acknowledged /\ queue[2].acknowledged_at = NoTime


(* ------------------ requests made for one user (C18) ------------------- *)

\* What acknowledge_message_endpoint answers: the two dicts it returns and
\* the HTTPException of its except clause.
acknowledge_status(q, message_id) ==
    IF ~update_found(q, message_id) THEN "failed"
    ELSE IF q[message_id].sent_at = NoTime THEN "error"
    ELSE "success"

\* The rows acknowledge_message_endpoint adds to conversation_initiations:
\* one with the user_id of the request and the row's sent_at and message_type;
\* initiated_at is NOT NULL, so for a row never sent the INSERT raises.
acknowledge_initiations(q, user_id, message_id) ==
    IF acknowledge_status(q, message_id) = "success"
    THEN <<[user_id |-> user_id, initiated_at |-> q[message_id].sent_at,
            message_type |-> q[message_id].message_type]>>
    ELSE <<>>

\* POST /api/messages/{user_id}/{message_id}/acknowledge.  The UPDATE of
\* mark_message_acknowledged is committed before the endpoint goes on.
AcknowledgeCall(u, id) ==
    /\ queue' = mark_message_acknowledged(queue, id)
    /\ call' = [pc |-> "returned", op |-> "acknowledge_message_endpoint",
                user_id |-> u, message_id |-> id, t |-> now,
                status |-> acknowledge_status(queue, id),
                initiations |-> acknowledge_initiations(queue, u, id)]
    /\ UNCHANGED <<now, patterns, sweepers, pollers, conn>>

NextUsers ==
    \/ Tick
    \/ \E r \in MarkRequests : QueueMessage(r)
    \/ \E id \in 1 .. Len(queue) + 1 : MarkSent(id)
    \/ \E u \in Users, id \in 1 .. Len(queue) + 1 : AcknowledgeCall(u, id)

SpecUsers == InitQueue /\ [][NextUsers]_vars

\* C18: an acknowledge request made for user u changes no queue row of
\* another user, whichever message id it names.
C18_AcknowledgeTouchesOwnRowsOnly ==
    [][(/\ call'.pc = "returned"
        /\ call'.op = "acknowledge_message_endpoint"
        /\ now' = now)
       => \A i \in 1 .. Len(queue) :
            queue[i].user_id # call'.user_id => queue'[i] = queue[i]]_vars


(* ----------------------- task reminders (C13) -------------------------- *)

\* The task_reminder rows of user u scheduled on the day of t whose metadata
\* is {"task_id": id}.
RemindersOf(q, u, id, t) ==
    {i \in 1 .. Len(q) :
        /\ q[i].user_id = u
        /\ q[i].message_type = "task_reminder"
        /\ q[i].metadata = id
        /\ DateOf(q[i].scheduled_time) = DateOf(t)}

\* C13: after a sweep that ran to its end, every pending task due today or
\* tomorrow has a task_reminder row of today that carries exactly its id,
\* and the row the sweep made is scheduled at 10:00, whatever the task ids
\* and the order of the tasks.
C13_EveryDueTaskReminded ==
    [][(/\ call'.pc = "returned"
        /\ call'.op = "check_and_queue_daily_messages"
        /\ ~call'.raised
        /\ now' = now /\ patterns' = patterns)
       => \A k \in 1 .. Len(call'.tasks) :
            (/\ call'.tasks[k].due # NoTime
             /\ call'.tasks[k].due - DateOf(now) \in 0 .. 1)
            => /\ RemindersOf(queue', call'.user_id, call'.tasks[k].id, now) # {}
               /\ \A i \in RemindersOf(queue', call'.user_id, call'.tasks[k].id, now) :
                    queue'[i].origin = "sweep"
                        => TimeOfDay(queue'[i].scheduled_time) = 10 * 60]_vars


(* ------------------ the pattern store on its own (C14, C15) ------------ *)

At(d, h, m) == Combine(d, h * 60 + m)

\* The timestamps of a user's conversations: none; three around 08:00; the
\* three of Histories; some at the edges of both windows; one older than 30
\* days with one of the evening before; only one older than 30 days.
LearnHistories ==
    {{},
     {At(0 - 1, 7, 50), At(0 - 1, 8, 0), At(0 - 2, 8, 10)},
     {At(0 - 1, 9, 45), At(0 - 1, 10, 16), At(0 - 1, 18, 0)},
     {At(0 - 1, 5, 59), At(0 - 1, 11, 59), At(0 - 1, 12, 0),
      At(0 - 1, 18, 1), At(0 - 1, 23, 30)},
     {At(0 - 40, 8, 0), At(0 - 1, 19, 0)},
     {At(0 - 40, 8, 0)}}

\* The request bodies tried: quiet hours only, and a morning time of 09:30.
StoreRequests ==
    PatternRequests \cup
    {[typical_morning_time |-> FormatHHMM(9 * 60 + 30), typical_evening_time |-> NoStr,
      quiet_hours_start |-> NoStr, quiet_hours_end |-> NoStr]}

\* POST /api/patterns/{user_id}/update
UpdateCall(u) ==
    /\ \E d \in StoreRequests :
        /\ patterns' = [patterns EXCEPT ![u] = update_user_patterns(d)]
        /\ call' = [pc |-> "returned", op |-> "update_user_patterns", user_id |-> u]
    /\ UNCHANGED <<now, queue, sweepers, pollers, conn>>

\* learn_user_patterns(user_id) with conv in the conversations table
LearnCall(u) ==
    /\ \E conv \in LearnHistories :
        /\ patterns' = [patterns EXCEPT ![u] = learn_user_patterns(u, conv)]
        /\ call' = [pc |-> "returned", op |-> "learn_user_patterns", user_id |-> u,
                    conversations |-> conv, t |-> now,
                    result |-> learn_user_patterns_result(conv)]
    /\ UNCHANGED <<now, queue, sweepers, pollers, conn>>

\* get_user_patterns that stores the defaults for a user without a row
GetPatternsCallStoring(u) ==
    /\ call' = [pc |-> "returned", op |-> "get_user_patterns", user_id |-> u,
                result |-> get_user_patterns(u)]
    /\ patterns' = [patterns EXCEPT ![u] =
                        IF patterns[u].stored THEN patterns[u]
                        ELSE [stored |-> TRUE,
                              typical_morning_time |-> FormatHHMM(8 * 60),
                              typical_evening_time |-> FormatHHMM(20 * 60),
                              quiet_hours_start |-> NoStr,
                              quiet_hours_end |-> NoStr]]
    /\ UNCHANGED <<now, queue, sweepers, pollers, conn>>

\* get_user_patterns(user_id)
GetPatternsCall(u) ==
    /\ call' = [pc |-> "returned", op |-> "get_user_patterns", user_id |-> u,
                result |-> get_user_patterns(u)]
    /\ UNCHANGED <<now, queue, patterns, sweepers, pollers, conn>>

NextPatterns ==
    \/ Tick
    \/ \E u \in Users : UpdateCall(u)
    \/ \E u \in Users : LearnCall(u)
    \/ \E u \in Users : GetPatternsCall(u)

SpecPatterns == Init /\ [][NextPatterns]_vars

LearnReturned(c) == c.pc = "returned" /\ c.op = "learn_user_patterns"

\* What get_user_patterns answers from the row r.
Answer(r) == IF r.stored THEN r ELSE [r EXCEPT !.typical_morning_time = <<8, 0>>,
                                               !.typical_evening_time = <<20, 0>>]

\* C14: after learn_user_patterns has returned P for user u, the stored
\* pattern of u is P: get_user_patterns(u) gives P's typical_morning_time and
\* typical_evening_time, whatever was stored before and whatever the history.
C14_LearnStoresWhatItReturns ==
    [][(LearnReturned(call') /\ now' = now /\ queue' = queue)
       => /\ Answer(patterns'[call'.user_id]).typical_morning_time
                = call'.result.typical_morning_time
          /\ Answer(patterns'[call'.user_id]).typical_evening_time
                = call'.result.typical_evening_time]_vars

\* The minutes since midnight of the timestamps of conv in the 30 days
\* before t whose hour lies in lo .. hi, one for each timestamp.
WindowMinutes(conv, t, lo, hi) ==
    LET inwin == {x \in conv : x >= t - 30 * 1440
                               /\ (x % 1440) \div 60 \in lo .. hi}
    IN [x \in inwin |-> x % 1440]

\* The floor of the mean of the values of f, as <<hour, minute>>; dflt when
\* f has none.
RECURSIVE Total(_, _)
Total(f, S) == IF S = {} THEN 0
               ELSE LET x == CHOOSE y \in S : TRUE IN f[x] + Total(f, S \ {x})
FloorMean(f, dflt) ==
    IF DOMAIN f = {} THEN dflt
    ELSE LET m == Total(f, DOMAIN f) \div Cardinality(DOMAIN f)
         IN <<m \div 60, m % 60>>

\* C15: learn_user_patterns returns, for each window (hours 6..11, hours
\* 18..23), the floor of the mean of the minutes since midnight of the
\* window's timestamps of the trailing 30 days as HH:MM, and 08:00 or 20:00
\* for a window without timestamps, whatever the other window holds; with a
\* timestamp in the trailing 30 days these are the values it stores.
C15_FloorMeanPerWindow ==
    [][(LearnReturned(call') /\ now' = now /\ queue' = queue)
       => LET morning == FloorMean(WindowMinutes(call'.conversations, now, 6, 11), <<8, 0>>)
              evening == FloorMean(WindowMinutes(call'.conversations, now, 18, 23), <<20, 0>>)
          IN /\ call'.result.typical_morning_time = morning
             /\ call'.result.typical_evening_time = evening
             /\ (\E x \in call'.conversations : x >= now - 30 * 1440)
                => /\ patterns'[call'.user_id].typical_morning_time = morning
                   /\ patterns'[call'.user_id].typical_evening_time = evening]_vars

\* learn_user_patterns has returned 11:59 and 20:45: the mean of 18:01 and
\* 23:30 is rounded down, 05:59 and 12:00 are in no window.
C15_Witness ==
    /\ LearnReturned(call)
    /\ call.result.typical_morning_time = <<11, 59>>
    /\ call.result.typical_evening_time = <<20, 45>>
    /\ patterns[call.user_id].typical_evening_time = <<20, 45>>



(* ----------------------- the two queries (C19) ------------------------- *)

\* should_send_message_now(user_id, "encouragement", scheduled_time), the
\* scheduled_time left out, the present time or an hour ahead
CanSendCall(u) ==
    /\ \E st \in {NoTime, now, now + 60} :
        call' = [pc |-> "returned", op |-> "should_send_message_now",
                 user_id |-> u, scheduled_time |-> st, t |-> now,
                 verdict |-> should_send_message_now(queue, u, "encouragement", st)]
    /\ UNCHANGED <<now, queue, patterns, sweepers, pollers, conn>>

NextQueries ==
    \/ Tick
    \/ \E r \in MarkRequests : QueueMessage(r)
    \/ \E id \in 1 .. Len(queue) + 1 : MarkSent(id)
    \/ \E u \in Served : UpdateCall(u)
    \/ \E u \in Users : GetPatternsCall(u)
    \/ \E u \in Users : CanSendCall(u)

SpecQueries == InitQueue /\ [][NextQueries]_vars

Queries == {"get_user_patterns", "should_send_message_now"}

\* C19: a call of get_user_patterns or should_send_message_now leaves every
\* queue row and every stored pattern as it was, and get_user_patterns for a
\* user without a row answers 08:00 and 20:00 with no quiet hours and leaves
\* the user without a row.
C19_QueriesChangeNothing ==
    [][(/\ call'.pc = "returned"
        /\ call'.op \in Queries
        /\ now' = now)
       => /\ queue' = queue
          /\ patterns' = patterns
          /\ (call'.op = "get_user_patterns" /\ ~patterns[call'.user_id].stored)
                => /\ call'.result.typical_morning_time = <<8, 0>>
                   /\ call'.result.typical_evening_time = <<20, 0>>
                   /\ call'.result.quiet_hours_start = NoStr
                   /\ call'.result.quiet_hours_end = NoStr
                   /\ ~patterns'[call'.user_id].stored]_vars

\* get_user_patterns has answered the defaults for a user without a row,
\* while another user has a row and the queue holds a sent row.
C19_Witness ==
    /\ call.pc = "returned"
    /\ call.op = "get_user_patterns"
    /\ call.user_id = "u2"
    /\ call.result.typical_morning_time = <<8, 0>>
    /\ ~patterns["u2"].stored
    /\ patterns["u1"].stored
    /\ \E i \in 1 .. Len(queue) : queue[i].sent


(* ------------------------ the weekly review (C20) ---------------------- *)

\* The rows of kind weekly_review that a step has added to the queue.
NewWeeklyReviews ==
    {i \in (Len(queue) + 1) .. Len(queue') : queue'[i].message_type = "weekly_review"}

\* C20: a call of check_and_queue_daily_messages adds a weekly_review row
\* only on a Sunday, and then with scheduled_time 18:00 of that day; on any
\* other weekday it adds none.
C20_WeeklyReviewOnSundayAt18 ==
    [][(/\ call'.pc = "returned"
        /\ call'.op = "check_and_queue_daily_messages"
        /\ now' = now)
       => \A i \in NewWeeklyReviews :
            /\ WeekdayOf(now) = 6
            /\ queue'[i].scheduled_time = DateOf(now) * MinutesPerDay + 18 * 60
            /\ queue'[i].user_id = call'.user_id]_vars

\* A sweep on the Sunday has returned and the queue holds the weekly_review
\* row it made for 18:00 of that day, next to the other rows of that sweep.
C20_Witness ==
    /\ call.pc = "returned"
    /\ call.op = "check_and_queue_daily_messages"
    /\ ~call.raised
    /\ WeekdayOf(call.t) = 6
    /\ Len(queue) = 3
    /\ queue[3].message_type = "weekly_review"
    /\ queue[3].origin = "sweep"
    /\ queue[3].scheduled_time = DateOf(call.t) * MinutesPerDay + 18 * 60
    /\ \A i \in 1 .. 2 : queue[i].message_type # "weekly_review"


(* ------------------- the periodic task's tick (C21) -------------------- *)

\* What the collaborators answer a user's sweep in the ticks followed: the
\* journal has no entry of today and get_pending_tasks returns no task.
TickTaskLists == {<<>>}

\* Every order in which SELECT DISTINCT user_id may list the users of S.
orders_of(S) ==
    {f \in [1 .. Cardinality(S) -> S] :
        \A a, b \in 1 .. Cardinality(S) : a # b => f[a] # f[b]}

\* for user_id in users: check_and_queue_daily_messages(user_id), from the
\* k-th user on.  An exception of a sweep leaves the loop for the except
\* clause of the tick.
RECURSIVE sweep_users(_, _, _, _)
sweep_users(q, users, tasks, k) ==
    IF k > Len(users) THEN q
    ELSE LET q1 == check_and_queue_daily_messages(q, users[k], FALSE, tasks[users[k]])
         IN IF sweep_raises(users[k]) THEN q1
            ELSE sweep_users(q1, users, tasks, k + 1)

\* The users whose sweep the loop has called.
RECURSIVE swept_users(_, _)
swept_users(users, k) ==
    IF k > Len(users) THEN {}
    ELSE IF sweep_raises(users[k]) THEN {users[k]}
    ELSE {users[k]} \cup swept_users(users, k + 1)

\* One pass of the while loop of periodic_message_check; active is the set
\* of users with a conversation in the trailing 30 days.
PeriodicTick ==
    /\ \E active \in SUBSET Users :
       \E users \in orders_of(active), tasks \in [Users -> TickTaskLists] :
        /\ queue' = sweep_users(queue, users, tasks, 1)
        /\ call' = [pc |-> "returned", op |-> "periodic_message_check",
                    users |-> users, t |-> now,
                    swept |-> swept_users(users, 1),
                    caught |-> \E k \in 1 .. Len(users) : sweep_raises(users[k])]
    /\ UNCHANGED <<now, patterns, sweepers, pollers, conn>>

NextTicks ==
    \/ Tick
    \/ \E u \in Users : UpdatePatternsAny(u)
    \/ PeriodicTick

SpecTicks == InitQueue /\ [][NextTicks]_vars

\* C21: a tick calls the sweep for every user with a conversation in the
\* trailing 30 days, also when the sweep of another user of the tick raised:
\* after the tick each such user whose own sweep does not raise has the
\* morning row of today.
C21_EveryActiveUserSwept ==
    [][(/\ call'.pc = "returned"
        /\ call'.op = "periodic_message_check"
        /\ now' = now)
       => \A k \in 1 .. Len(call'.users) :
            /\ call'.users[k] \in call'.swept
            /\ ~sweep_raises(call'.users[k])
                 => HasRowToday(queue', call'.users[k], MorningKinds, now)]_vars


(* ------------------------ manual triggers (C22) ------------------------ *)

\* The requests start in the night of day 1, inside the hours in which
\* should_send_message_now answers False.
TriggerStart == Combine(1, 3 * 60)

InitTriggers ==
    /\ now = TriggerStart
    /\ queue = <<>>
    /\ patterns = [u \in Users |-> NoRow]
    /\ sweepers = [w \in Sweepers |-> Idle]
    /\ pollers = [w \in Pollers |-> Idle]
    /\ call = Idle
    /\ conn = Open

\* Values of trigger["type"] that the endpoint has no branch for.
OtherTypes == {"task_reminder", "goal_checkin"}

\* POST /api/messages/{user_id}/trigger with a type the endpoint knows
TriggerCall(u) ==
    /\ Len(queue) <= MaxQueue
    /\ \E type \in TriggerTypes, today_entry \in BOOLEAN :
        /\ queue' = trigger_manual_message(queue, u, type, "tired", today_entry)
        /\ call' = [pc |-> "returned", op |-> "trigger_manual_message_endpoint",
                    user_id |-> u, type |-> type, t |-> now,
                    status |-> "success", message_id |-> Len(queue) + 1]
    /\ UNCHANGED <<now, patterns, sweepers, pollers, conn>>

\* POST /api/messages/{user_id}/trigger with another type: the HTTPException
\* of the else branch is raised before queue_message is reached
TriggerUnknownCall(u) ==
    /\ \E type \in OtherTypes :
        call' = [pc |-> "returned", op |-> "trigger_manual_message_endpoint",
                 user_id |-> u, type |-> type, t |-> now,
                 status |-> "rejected", message_id |-> 0]
    /\ UNCHANGED <<now, queue, patterns, sweepers, pollers, conn>>

NextTriggers ==
    \/ Tick
    \/ \E u \in Served : TriggerCall(u)
    \/ \E u \in Served : TriggerUnknownCall(u)

SpecTriggers == InitTriggers /\ [][NextTriggers]_vars

\* The message_type a trigger of the given type may store.
StoredTypes(type) ==
    IF type = "evening_reflection" THEN {"evening_reflection", "evening_simple"}
    ELSE {type}

\* C22: a trigger of a known type adds exactly one row to the queue, of the
\* user and type asked for, with scheduled_time now, sent and sent_at now,
\* and leaves the other rows alone, whatever the queue holds and whatever
\* the time; a trigger of another type is rejected and changes no row.
C22_TriggerAlwaysSends ==
    [][(/\ call'.pc = "returned"
        /\ call'.op = "trigger_manual_message_endpoint"
        /\ now' = now)
       => IF call'.type \in {"morning_checkin", "evening_reflection",
                             "weekly_review", "encouragement"}
          THEN /\ call'.status = "success"
               /\ Len(queue') = Len(queue) + 1
               /\ \A i \in 1 .. Len(queue) : queue'[i] = queue[i]
               /\ call'.message_id = Len(queue')
               /\ queue'[Len(queue')].user_id = call'.user_id
               /\ queue'[Len(queue')].message_type \in StoredTypes(call'.type)
               /\ queue'[Len(queue')].scheduled_time = now
               /\ queue'[Len(queue')].sent
               /\ queue'[Len(queue')].sent_at = now
          ELSE /\ call'.status = "rejected"
               /\ queue' = queue]_vars

\* A fourth morning_checkin trigger within the same hour of the night has
\* been answered: the queue holds four morning_checkin rows of the user,
\* all sent at that time.
C22_Witness ==
    /\ call.pc = "returned"
    /\ call.op = "trigger_manual_message_endpoint"
    /\ call.status = "success"
    /\ call.type = "morning_checkin"
    /\ HourOf(now) = 3
    /\ Len(queue) = 4
    /\ call.message_id = 4
    /\ \A i \in 1 .. 4 :
        /\ queue[i].message_type = "morning_checkin"
        /\ queue[i].user_id = "u1"
        /\ queue[i].sent
        /\ queue[i].sent_at = now


(* ------------------ the log of acknowledgements (C23) ------------------ *)

\* C23: an acknowledge request that sets the acknowledged flag of a row adds
\* one row to conversation_initiations, with the message_type of the row and
\* its sent_at, which is set, as initiated_at.
C23_AcknowledgedIsLogged ==
    [][(/\ call'.pc = "returned"
        /\ call'.op = "acknowledge_message_endpoint"
        /\ now' = now
        /\ call'.message_id \in 1 .. Len(queue')
        /\ queue'[call'.message_id].acknowledged)
       => /\ Len(call'.initiations) = 1
          /\ call'.initiations[1].message_type = queue'[call'.message_id].message_type
          /\ call'.initiations[1].initiated_at = queue'[call'.message_id].sent_at
          /\ call'.initiations[1].initiated_at # NoTime]_vars


(* -------------------- acknowledged after sent (C29) -------------------- *)

\* C29: in every state a row that is acknowledged is sent.
C29_AcknowledgedImpliesSent ==
    \A i \in 1 .. Len(queue) : queue[i].acknowledged => queue[i].sent


(* --------------------- polls one after another (C24) ------------------- *)

\* The instants followed here: 08:00 of day 1 and 10, 15, 16 and 61 minutes
\* later, on both sides of the 15 minutes and of the hour of the policy.
ReleasePoints ==
    {QueueStart + d : d \in {0, 10, 15, 16, 61}}

Advance ==
    /\ \E t \in ReleasePoints :
        /\ t > now
        /\ \A t2 \in ReleasePoints : t2 > now => t <= t2
        /\ now' = t
    /\ UNCHANGED <<queue, patterns, sweepers, pollers, call, conn>>

\* The queue_message calls made, in this order; the second is scheduled ten
\* minutes after the first instant.
ReleaseRequests ==
    <<[user_id |-> "u1", priority |-> MEDIUM, content |-> Body("a", 0),
       scheduled_time |-> NoTime],
      [user_id |-> "u1", priority |-> HIGH, content |-> Body("b", 0),
       scheduled_time |-> QueueStart + 10],
      [user_id |-> "u1", priority |-> LOW, content |-> Body("c", 0),
       scheduled_time |-> NoTime],
      [user_id |-> "u1", priority |-> HIGH, content |-> Body("d", 0),
       scheduled_time |-> NoTime],
      [user_id |-> "u1", priority |-> MEDIUM, content |-> Body("e", 0),
       scheduled_time |-> NoTime],
      [user_id |-> "u1", priority |-> CRITICAL, content |-> Body("f", 0),
       scheduled_time |-> NoTime]>>

EnqueueNext ==
    /\ Len(queue) < MaxQueue + 2
    /\ Len(queue) < Len(ReleaseRequests)
    /\ QueueMessage(ReleaseRequests[Len(queue) + 1])

\* The poll with every should_send_message_now answered from the table as
\* it was when the list was read
PollCallSnapshot(u) ==
    /\ \E msgs \in get_pending_messages(queue, u, now) :
        /\ queue' = [i \in 1 .. Len(queue) |->
                        IF /\ \E k \in 1 .. Len(msgs) : msgs[k].id = i
                           /\ should_send_message_now(queue, u, queue[i].message_type,
                                                      queue[i].scheduled_time)
                        THEN mark_message_sent(queue, i)[i]
                        ELSE queue[i]]
        /\ call' = [pc |-> "returned", op |-> "get_pending_messages_endpoint",
                    user_id |-> u, t |-> now, listed |-> msgs]
    /\ UNCHANGED <<now, patterns, sweepers, pollers, conn>>

\* GET /api/messages/{user_id}/pending, one request at a time
PollCall(u) ==
    /\ \E msgs \in get_pending_messages(queue, u, now) :
        /\ queue' = poll_loop(queue, u, msgs, 1)
        /\ call' = [pc |-> "returned", op |-> "get_pending_messages_endpoint",
                    user_id |-> u, t |-> now, listed |-> msgs]
    /\ UNCHANGED <<now, patterns, sweepers, pollers, conn>>

NextRelease ==
    \/ Advance
    \/ EnqueueNext
    \/ \E u \in Served : PollCall(u)

SpecRelease == InitQueue /\ [][NextRelease]_vars

\* The rows a step has marked sent.
ReleasedBy(q, q2) == {i \in 1 .. Len(q) : ~q[i].sent /\ q2[i].sent}

PollStep ==
    /\ call'.pc = "returned"
    /\ call'.op = "get_pending_messages_endpoint"
    /\ now' = now

\* C24: a row the delivery poll marks sent has scheduled_time <= sent_at <=
\* scheduled_time + 15 minutes, and a poll leaves unsent every unsent row
\* whose scheduled_time is in the future or more than 15 minutes ago.
C24_ReleasedWithinWindow ==
    [][PollStep
       => /\ \A i \in ReleasedBy(queue, queue') :
               /\ queue'[i].scheduled_time <= queue'[i].sent_at
               /\ queue'[i].sent_at <= queue'[i].scheduled_time + 15
          /\ \A i \in 1 .. Len(queue) :
               (/\ ~queue[i].sent
                /\ \/ now > queue[i].scheduled_time + 15
                   \/ now < queue[i].scheduled_time)
               => ~queue'[i].sent]_vars

\* A row was released exactly 15 minutes after its scheduled_time, and a
\* later poll has listed a row that was more than 15 minutes late and has
\* left it unsent.
C24_Witness ==
    /\ call.pc = "returned"
    /\ call.op = "get_pending_messages_endpoint"
    /\ call.t = now
    /\ \E i, j \in 1 .. Len(queue) :
        /\ queue[i].sent
        /\ queue[i].sent_at = queue[i].scheduled_time + 15
        /\ ~queue[j].sent
        /\ queue[j].scheduled_time + 15 < now
        /\ queue[j].user_id = queue[i].user_id
        /\ \E k \in 1 .. Len(call.listed) : call.listed[k].id = j


(* ------------------- the rate limit inside a poll (C25) ---------------- *)

\* The rows of u in q that were sent in the hour before t.
SentInHourBefore(q, u, t) ==
    {i \in 1 .. Len(q) : q[i].user_id = u /\ q[i].sent /\ q[i].sent_at >= t - 60}

\* The positions of the list whose row is scheduled within 15 minutes of t.
InWindow(msgs, t) ==
    {k \in 1 .. Len(msgs) :
        msgs[k].scheduled_time - t <= 15 /\ t - msgs[k].scheduled_time <= 15}

\* C25: after a poll the user has at most 3 rows sent within the hour before
\* it; the poll releases, of the listed rows scheduled within 15 minutes,
\* the first ones in the order of the list up to what is left of the 3, and
\* the list is in the order of priority and then scheduled_time.
C25_RateLimitWithinPoll ==
    [][PollStep
       => LET u == call'.user_id
              msgs == call'.listed
              left == IF Cardinality(SentInHourBefore(queue, u, now)) >= 3 THEN 0
                      ELSE 3 - Cardinality(SentInHourBefore(queue, u, now))
              W == InWindow(msgs, now)
          IN /\ Cardinality(SentInHourBefore(queue', u, now)) <= 3
             /\ \A a, b \in 1 .. Len(msgs) :
                  a < b => \/ msgs[a].priority < msgs[b].priority
                           \/ /\ msgs[a].priority = msgs[b].priority
                              /\ msgs[a].scheduled_time <= msgs[b].scheduled_time
             /\ ReleasedBy(queue, queue') =
                  {msgs[k].id : k \in {k \in W :
                      Cardinality({j \in W : j < k}) < left}}]_vars

\* A poll has listed four rows scheduled at its time while nothing was sent
\* in the hour before: three are sent, the one of lowest priority is not.
C25_Witness ==
    /\ call.pc = "returned"
    /\ call.op = "get_pending_messages_endpoint"
    /\ call.t = now
    /\ Len(call.listed) = 4
    /\ \A k \in 1 .. 4 : call.listed[k].scheduled_time = now
    /\ \A k \in 1 .. 3 : queue[call.listed[k].id].sent_at = now
    /\ ~queue[call.listed[4].id].sent
    /\ call.listed[4].priority = LOW
    /\ Cardinality(SentInHourBefore(queue, "u1", now)) = 3


(* ----------------- polls at every instant (C26) ------------------------ *)

\* The instants of day 0 followed here.  Between two of them nothing is
\* scheduled, so a poll at each of them stands for polls every 15 minutes.
LivePoints ==
    {Combine(0, 8 * 60), Combine(0, 10 * 60), Combine(0, 10 * 60 + 16),
     Combine(0, 20 * 60), Combine(0, 20 * 60 + 30)}

InitLive ==
    /\ now = Combine(0, 8 * 60)
    /\ queue = <<>>
    /\ patterns = [u \in Users |-> NoRow]
    /\ sweepers = [w \in Sweepers |-> Idle]
    /\ pollers = [w \in Pollers |-> Idle]
    /\ call = Idle
    /\ conn = Open

\* The user has been polled at this instant, after everything else that
\* happened at it.
PolledNow ==
    /\ call.pc = "returned"
    /\ call.op = "get_pending_messages_endpoint"
    /\ call.t = now

\* Time passes once the poll of this instant is over.
AdvanceAfterPoll ==
    /\ PolledNow
    /\ \E t \in LivePoints :
        /\ t > now
        /\ \A t2 \in LivePoints : t2 > now => t <= t2
        /\ now' = t
    /\ UNCHANGED <<queue, patterns, sweepers, pollers, call, conn>>

NextLive ==
    \/ AdvanceAfterPoll
    \/ \E u \in Served : SweepCall(u)
    \/ \E u \in Served : PollCall(u)

\* The polls go on and time goes on.
SpecLive ==
    /\ InitLive
    /\ [][NextLive]_vars
    /\ WF_vars(AdvanceAfterPoll)
    /\ \A u \in Served : WF_vars(PollCall(u))

\* C26: with a poll at every instant, no quiet hours in the patterns and at
\* most one row sent in an hour, every row the sweep has queued is marked
\* sent in the end.
C26_SweptIsEventuallySent ==
    \A i \in 1 .. MaxQueue :
        (Len(queue) >= i /\ queue[i].origin = "sweep")
            ~> (Len(queue) >= i /\ queue[i].sent)


(* ------------- sweeps with learned patterns (C27) ---------------------- *)

\* Conversations of the day before day 0: two late in the evening window,
\* one at 19:00, two at the ends of the morning window.
NightHistories ==
    {{At(0 - 1, 23, 10), At(0 - 1, 23, 50)},
     {At(0 - 1, 19, 0)},
     {At(0 - 1, 6, 0), At(0 - 1, 11, 59)}}

\* learn_user_patterns(user_id) with conv in the conversations table
LearnNight(u) ==
    /\ \E conv \in NightHistories :
        /\ patterns' = [patterns EXCEPT ![u] = learn_user_patterns(u, conv)]
        /\ call' = [pc |-> "returned", op |-> "learn_user_patterns", user_id |-> u,
                    conversations |-> conv, t |-> now,
                    result |-> learn_user_patterns_result(conv)]
    /\ UNCHANGED <<now, queue, sweepers, pollers, conn>>

NextLearned ==
    \/ Tick
    \/ \E u \in Served : LearnNight(u)
    \/ \E u \in Served : SweepCall(u)

SpecLearned == Init /\ [][NextLearned]_vars

\* C27: every row the sweep has queued, the patterns being the defaults or
\* what learn_user_patterns has stored, has a scheduled_time whose hour is at
\* least 6 and below 23.
C27_SweptOutsideHardQuiet ==
    \A i \in 1 .. Len(queue) :
        queue[i].origin = "sweep"
            => /\ 6 <= HourOf(queue[i].scheduled_time)
               /\ HourOf(queue[i].scheduled_time) < 23


(* ---------------- a sweep after a manual trigger (C28) ----------------- *)

NextManual ==
    \/ Tick
    \/ \E u \in Served : TriggerCall(u)
    \/ \E u \in Served : SweepCall(u)

SpecManual == InitTriggers /\ [][NextManual]_vars

\* u has a row made by a manual trigger, of one of the kinds, scheduled on
\* the date of t.
TriggeredToday(q, u, kinds, t) ==
    \E i \in 1 .. Len(q) :
        /\ q[i].user_id = u
        /\ q[i].origin = "manual"
        /\ q[i].message_type \in kinds
        /\ DateOf(q[i].scheduled_time) = DateOf(t)

\* u has a row of one of the kinds scheduled at minute m of the date of t.
ScheduledAt(q, u, kinds, t, m) ==
    \E i \in 1 .. Len(q) :
        /\ q[i].user_id = u
        /\ q[i].message_type \in kinds
        /\ q[i].scheduled_time = DateOf(t) * MinutesPerDay + m

\* C28: after a sweep that follows a manual morning_checkin trigger of the
\* same date, the queue holds a morning_checkin row scheduled at the user's
\* typical_morning_time of that date, here 08:00, and likewise an evening
\* row at 20:00 after a manual evening trigger.
C28_SweepStillProvides ==
    [][(/\ call'.pc = "returned"
        /\ call'.op = "check_and_queue_daily_messages"
        /\ now' = now)
       => LET u == call'.user_id
          IN /\ TriggeredToday(queue, u, {"morning_checkin"}, now)
                  => ScheduledAt(queue', u, {"morning_checkin"}, now, 8 * 60)
             /\ TriggeredToday(queue, u, {"evening_reflection", "evening_simple"}, now)
                  => ScheduledAt(queue', u, {"evening_reflection", "evening_simple"},
                                 now, 20 * 60)]_vars


(* ------------------- the server after startup (C30) -------------------- *)

\* main.py before startup_event: the module's conversation_initiator is
\* None and ConversationInitiator(None, ...) is yet to be made.
InitServer ==
    /\ now = FirstInstant
    /\ queue = <<>>
    /\ patterns = [u \in Users |-> NoRow]
    /\ sweepers = [w \in Sweepers |-> Idle]
    /\ pollers = [w \in Pollers |-> Idle]
    /\ call = Idle
    /\ conn = NoConnection

\* asyncio.create_task(periodic_message_check()) has run: startup is over.
Serving == sweepers["periodic"].pc = "sleeping"

\* startup_event: ConversationInitiator(None, ...), then conn is set to a
\* connection for _init_tables, the connection is closed, and the finally
\* clause sets conn to None whether or not the try block raised.
StartupEvent ==
    /\ ~Serving
    /\ \E tables \in BOOLEAN :
        call' = [pc |-> "returned", op |-> "startup_event", user_id |-> "",
                 t |-> now, status |-> IF tables THEN "ok" ELSE "error"]
    /\ conn' = NoConnection
    /\ sweepers' = [sweepers EXCEPT !["periodic"] = [pc |-> "sleeping"]]
    /\ UNCHANGED <<now, queue, patterns, pollers>>

\* A call of the server that goes through a method of the initiator: with
\* conn None the method's self.conn.cursor() raises AttributeError, which
\* the caller's except clause catches, and no table is touched.  q2, p2 and
\* status are the tables and the answer when the method works.
InitiatorCall(op, u, q2, p2, status) ==
    /\ Serving
    /\ queue' = IF conn = Open THEN q2 ELSE queue
    /\ patterns' = IF conn = Open THEN p2 ELSE patterns
    /\ call' = [pc |-> "returned", op |-> op, user_id |-> u, t |-> now,
                status |-> IF conn = Open THEN status ELSE "error"]
    /\ UNCHANGED <<now, sweepers, pollers, conn>>

\* One pass of periodic_message_check for one active user
ServerTick(u) ==
    InitiatorCall("periodic_message_check", u,
                  check_and_queue_daily_messages(queue, u, FALSE, <<>>),
                  patterns, "ok")

\* GET /api/messages/{user_id}/pending
ServerPoll(u) ==
    \E msgs \in get_pending_messages(queue, u, now) :
        InitiatorCall("get_pending_messages_endpoint", u,
                      poll_loop(queue, u, msgs, 1), patterns, "ok")

\* POST /api/messages/{user_id}/{message_id}/acknowledge
ServerAcknowledge(u, id) ==
    InitiatorCall("acknowledge_message_endpoint", u,
                  mark_message_acknowledged(queue, id), patterns,
                  acknowledge_status(queue, id))

\* GET /api/patterns/{user_id}
ServerGetPatterns(u) ==
    InitiatorCall("get_user_patterns_endpoint", u, queue, patterns, "ok")

\* POST /api/patterns/{user_id}/learn
ServerLearn(u) ==
    \E conv \in Histories :
        InitiatorCall("learn_user_patterns_endpoint", u, queue,
                      [patterns EXCEPT ![u] = learn_user_patterns(u, conv)], "ok")

\* POST /api/patterns/{user_id}/update: the endpoint opens a connection of
\* its own and does not go through the initiator.
ServerUpdatePatterns(u) ==
    /\ Serving
    /\ \E d \in PatternRequests :
        patterns' = [patterns EXCEPT ![u] = update_user_patterns(d)]
    /\ call' = [pc |-> "returned", op |-> "update_user_patterns_endpoint",
                user_id |-> u, t |-> now, status |-> "ok"]
    /\ UNCHANGED <<now, queue, sweepers, pollers, conn>>

NextServer ==
    \/ Tick
    \/ StartupEvent
    \/ \E u \in Users : ServerTick(u)
    \/ \E u \in Users : ServerPoll(u)
    \/ \E u \in Users, id \in 1 .. Len(queue) + 1 : ServerAcknowledge(u, id)
    \/ \E u \in Users : ServerGetPatterns(u)
    \/ \E u \in Users : ServerLearn(u)
    \/ \E u \in Users : ServerUpdatePatterns(u)

SpecServer == InitServer /\ [][NextServer]_vars

\* The calls that go through a method of the initiator.
InitiatorOps ==
    {"periodic_message_check", "get_pending_messages_endpoint",
     "acknowledge_message_endpoint", "get_user_patterns_endpoint",
     "learn_user_patterns_endpoint"}

\* C30: when the periodic task or an endpoint calls a method of the
\* initiator after startup, conn holds an open connection and the call does
\* not fail for want of one.
C30_HandleUsableAfterStartup ==
    [][(/\ call'.pc = "returned"
        /\ call'.op \in InitiatorOps
        /\ call' # call)
       => (conn = "open" /\ call'.status # "error")]_vars

====
